---- MODULE Spec2Model ----
(***************************************************************************)
(* Cache coordination of the Pessoa CRUD service: PessoaService composes   *)
(* PessoaDao (table "pessoas") and CacheService (an in-memory, TTL-bound   *)
(* cache-manager store).  Several requests are in flight at once; a        *)
(* request runs without preemption between two awaits, and every DAO or    *)
(* cache call is an await.  One action below is one awaited call together  *)
(* with the synchronous code that follows it up to the next await.         *)
(***************************************************************************)
EXTENDS Integers, Sequences, FiniteSets, TLC

\* ------------------------------------------------------------------ bounds
\* the number of service calls of a run with overlapping requests
MaxCalls == 2
\* the number of service calls of a run in which requests do not overlap
MaxSeqCalls == 4
\* the number of service calls of a run in which a cache del may fail
MaxDownCalls == 2
\* the longest params list given to generateKey
MaxParams == 2
\* the number of direct calls of CacheService in a run
MaxDirectCalls == 4
\* the most hits and the most misses recorded by direct calls of MetricsService
MaxHits == 23
MaxMisses == 137
\* the most requests tracked, and the most hits and the most misses counted
\* before them
MaxTracked == 3
\* the service calls of the two-Person scenario
MaxScenarioCalls == 6
\* the service calls of a client that also reads by id and by name
MaxReadCalls == 3
\* the service calls made under each setting of the environment
MaxConfigCalls == 2
\* the service calls of the clients that race a lookup against a write
MaxRaceCalls == 3
MaxCounted == 2
\* the PUT requests of the client of the controller
MaxPutCalls == 2
\* the HTTP requests that pass through the interceptor
MaxHttpCalls == 3
\* the CacheService calls of the clients whose gets are counted
MaxCountCalls == 4
\* the service calls of the clients while the entries age
MaxTtlCalls == 3
\* the steps of the clock in one CACHE_TTL
TtlTicks == 2

\* --------------------------------------------------------------- constants
CACHE_TTL == 300000

\* ------------------------------------------------------------ value spaces
Procs == {"r1", "r2"}
Ids == {1, 2}
Emails == {"a@x", "b@x"}
Telefones == {"t1", "t2"}
Idades == {0, 1}

\* a column a partial update leaves out
Unset == "unset"
UnsetIdade == -1

\* null: no row / no value
Null == [id |-> 0, email |-> "null", telefone |-> "null", idade |-> 0]

Pessoa == [id : Ids, email : Emails, telefone : Telefones, idade : Idades]

\* Prisma.PessoaCreateInput: every column is given; the rows drawn here
\* start with idade 0
PessoaCreateInput ==
    [id : {0}, email : Emails, telefone : Telefones, idade : {0}]

\* Prisma.PessoaUpdateInput: every column is optional; the updates drawn
\* here set one column
PessoaUpdateInput ==
    {[id |-> 0, email |-> e, telefone |-> Unset, idade |-> UnsetIdade] : e \in Emails}
      \cup {[id |-> 0, email |-> Unset, telefone |-> t, idade |-> UnsetIdade] :
                t \in Telefones}
      \cup {[id |-> 0, email |-> Unset, telefone |-> Unset, idade |-> i] : i \in Idades}

NoData == [id |-> 0, email |-> Unset, telefone |-> Unset, idade |-> UnsetIdade]

\* ------------------------------------------------------------ CacheService
\* JavaScript values that are not strings are written in angle brackets
JsNull == "<null>"
JsUndefined == "<undefined>"

\* JSON.stringify of a string, and of null or undefined as an array element
Quoted(s) == "\"" \o s \o "\""
JsonValue(v) == IF v \in {JsNull, JsUndefined} THEN "null" ELSE Quoted(v)

RECURSIVE JsonElements(_)
JsonElements(params) ==
    IF params = <<>> THEN ""
    ELSE IF Len(params) = 1 THEN JsonValue(params[1])
    ELSE JsonValue(Head(params)) \o "," \o JsonElements(Tail(params))

\* variant: the prefix is left out of the hashed content
JsonStringifyParams(prefix, params) == "{\"params\":[" \o JsonElements(params) \o "]}"

\* JSON.stringify({ prefix, params })
JsonStringify(prefix, params) ==
    "{\"prefix\":" \o Quoted(prefix) \o ",\"params\":[" \o JsonElements(params) \o "]}"

\* createHash('sha256').update(content).digest('hex'): the digest stands for
\* the content it is computed from (no two contents of a run share a digest)
Sha256Hex(content) == content

generateKey(prefix, params) == Sha256Hex(JsonStringify(prefix, params))

Keys == {generateKey("findByEmail", <<e>>) : e \in Emails}
          \cup {generateKey("findByTelefone", <<t>>) : t \in Telefones}

NoEntry == [value |-> Null, ttl |-> 0]

VARIABLES
    pessoas,        \* table "pessoas": id -> row or Null
    cacheManager,   \* the cache store: key -> [value, ttl] or NoEntry
    cacheHits,      \* MetricsService.cacheHits
    cacheMisses,    \* MetricsService.cacheMisses
    req,            \* the requests in flight: per request its position and locals
    calls,          \* the number of service calls still to come
    overlapped,     \* history: some call started while another was in flight
    since,          \* history of a caller that awaits each call: the last
                    \* successful write, and the lookups completed after it
    windowed,       \* history: the keys whose entry a lookup set while an update
                    \* of the entry's record had committed and deleted no key yet
    observed,       \* the last direct call of CacheService or MetricsService
                    \* and what it returned
    requestCounts,  \* MetricsService.requestCounts: endpoint key -> count
    responseTimes,  \* MetricsService.responseTimes: endpoint key -> samples
    errorCounts,    \* MetricsService.errorCounts: endpoint key -> count
    env             \* process.env: the cache settings

\* the per-endpoint maps of MetricsService
endpointMaps == <<requestCounts, responseTimes, errorCounts>>

vars == <<pessoas, cacheManager, cacheHits, cacheMisses, req, calls, overlapped, since,
         windowed, observed, endpointMaps, env>>

\* neither CACHE_TTL_SECONDS nor CACHE_MAX_ITEMS is set
Unconfigured == [CACHE_TTL_SECONDS |-> JsUndefined, CACHE_MAX_ITEMS |-> JsUndefined]

\* new Map() three times
NoRequests ==
    /\ requestCounts = << >>
    /\ responseTimes = << >>
    /\ errorCounts = << >>

\* ------------------------------------------------------------------ the DAO
Rows(db) == {db[i] : i \in {j \in Ids : db[j] # Null}}

\* variant: the query compares the phone column
DaoFindByEmailWrongColumn(db, email) ==
    IF \E r \in Rows(db) : r.telefone = email
    THEN CHOOSE r \in Rows(db) : r.telefone = email
    ELSE Null

\* SELECT * FROM pessoas WHERE email = ... LIMIT 1; result[0] || null
DaoFindByEmail(db, email) ==
    IF \E r \in Rows(db) : r.email = email
    THEN CHOOSE r \in Rows(db) : r.email = email
    ELSE Null

\* variant: the phone lookup returns a row whatever its phone
DaoFindByTelefoneAnyRow(db, telefone) ==
    IF Rows(db) # {} THEN CHOOSE r \in Rows(db) : TRUE ELSE Null

\* SELECT * FROM pessoas WHERE telefone = ... LIMIT 1; result[0] || null
DaoFindByTelefone(db, telefone) ==
    IF \E r \in Rows(db) : r.telefone = telefone
    THEN CHOOSE r \in Rows(db) : r.telefone = telefone
    ELSE Null

\* prisma.pessoa.findUnique({ where: { id } })
DaoGetById(db, id) == db[id]

\* the unique columns of the table that a row would collide on
UniqueViolations(db, id, row) ==
    {f \in {"email", "telefone"} :
        \E r \in Rows(db) : r.id # id /\
            IF f = "email" THEN r.email = row.email ELSE r.telefone = row.telefone}

\* the row an update of `old` with the partial `data` writes
Patched(old, data) ==
    [id |-> old.id,
     email |-> IF data.email = Unset THEN old.email ELSE data.email,
     telefone |-> IF data.telefone = Unset THEN old.telefone ELSE data.telefone,
     idade |-> IF data.idade = UnsetIdade THEN old.idade ELSE data.idade]

\* prisma.pessoa.update: P2025 when the id has no row, P2002 on a collision
DaoUpdateErrors(db, id, data) ==
    IF db[id] = Null THEN {"P2025"}
    ELSE IF UniqueViolations(db, id, Patched(db[id], data)) # {} THEN {"P2002"}
    ELSE {}

\* prisma.pessoa.delete: P2025 when the id has no row
DaoDeleteErrors(db, id) == IF db[id] = Null THEN {"P2025"} ELSE {}

\* ------------------------------------------------------------ request state
\* no direct call of CacheService or MetricsService was made
NoCall == [call |-> "none"]

NoKey == "none"
NoResult == [kind |-> "none", value |-> Null, field |-> "none"]

Idle ==
    [pc |-> "idle", op |-> "none", arg |-> NoData, cacheKey |-> NoKey,
     cached |-> Null, pessoa |-> Null, oldPessoa |-> Null, todo |-> <<>>,
     found |-> <<>>, result |-> NoResult, log |-> <<>>]

\* one awaited call of the request, as a test spy would record it
Call(name, key, row, err) ==
    [call |-> name, key |-> key, row |-> row, ttl |-> 0, err |-> err]

Ok(row) == [kind |-> "ok", value |-> row, field |-> "none"]
\* PessoaNotFoundException
NotFound(field) == [kind |-> "NotFound", value |-> Null, field |-> field]
\* DuplicatePessoaException(field, value)
Duplicate(field) == [kind |-> "Duplicate", value |-> Null, field |-> field]
\* any other error, rethrown as it is
Raw(code) == [kind |-> "error", value |-> Null, field |-> code]

Step(p, r) == req' = [req EXCEPT ![p] = r]

\* a call starts: it uses up one of the calls of the run
Enter(p) ==
    /\ req[p].pc = "idle"
    /\ calls > 0
    /\ calls' = calls - 1
    /\ overlapped' = (overlapped \/ \E q \in Procs : req[q].pc # "idle")
    /\ UNCHANGED <<since, windowed, observed, endpointMaps, env>>

\* no finished operation is waiting to hand its result to its caller: the
\* caller's continuation is a microtask, it runs before the event loop takes
\* the completion of any other I/O
Delivered == \A q \in Procs : req[q].pc # "done"

\* the history of an awaiting caller: the last successful create/update/delete
\* (its operation, the email of the row before it and of the row after it,
\* whether it removed a cache entry of the email before it), and
\* per email the number (up to 2) of findByEmail calls completed after it;
\* `absent`: the emails whose last findByEmail raised NotFound, no write having
\* succeeded since; `missed`: the write is a create of an email that was absent
NoWrite == [op |-> "none", oldEmail |-> "null", email |-> "null", cached |-> FALSE,
            looks |-> [e \in Emails |-> 0], absent |-> {}, missed |-> FALSE]

IsWrite(r) == r.op \in {"create", "update", "delete"}

Noted(r) ==
    IF IsWrite(r) /\ r.result.kind = "ok"
    THEN [op |-> r.op, oldEmail |-> r.oldPessoa.email,
          email |-> IF r.op = "delete" THEN "null" ELSE r.pessoa.email,
          cached |-> \E i \in 1..Len(r.log) :
                        /\ r.log[i].call = "cache.del"
                        /\ r.log[i].key = generateKey("findByEmail", <<r.oldPessoa.email>>)
                        /\ r.log[i].row # Null,
          looks |-> [e \in Emails |-> 0],
          absent |-> {},
          missed |-> (r.op = "create" /\ r.pessoa.email \in since.absent)]
    ELSE IF r.op = "findByEmail"
    THEN [since EXCEPT
            !.looks[r.arg.email] = IF since.op # "none" /\ @ < 2 THEN @ + 1 ELSE @,
            !.absent = IF r.result.kind = "NotFound" THEN @ \cup {r.arg.email}
                       ELSE @ \ {r.arg.email}]
    ELSE since

\* the tables the unique indexes of "pessoas" allow (rows of idade 0)
Tables ==
    {db \in [Ids -> Pessoa \cup {Null}] :
        /\ \A i \in Ids : db[i] # Null => (db[i].id = i /\ db[i].idade = 0)
        /\ \A i, j \in Ids :
              (i # j /\ db[i] # Null /\ db[j] # Null)
                  => (db[i].email # db[j].email /\ db[i].telefone # db[j].telefone)}

\* the service starts on a table of any content, with an empty cache
Init ==
    /\ pessoas \in Tables
    /\ cacheManager = [k \in Keys |-> NoEntry]
    /\ cacheHits = 0
    /\ cacheMisses = 0
    /\ req = [p \in Procs |-> Idle]
    /\ calls = MaxCalls
    /\ overlapped = FALSE
    /\ since = NoWrite
    /\ windowed = {}
    /\ NoRequests
    /\ env = Unconfigured
    /\ observed = NoCall

\* ------------------------------------------------------- CacheService calls
\* values a caller may store that JavaScript takes for false: 0 and ''
JsZero == [js |-> "number", n |-> 0]
JsEmptyString == [js |-> "string", s |-> ""]

\* `if (value)`: null, undefined, 0 and '' are not truthy
Truthy(value) == value \notin {Null, JsZero, JsEmptyString}

\* this.metrics.incrementCacheHit() / incrementCacheMiss()
incrementCacheHit(hits) == hits + 1
incrementCacheMiss(misses) == misses + 1

\* await this.cacheManager.get(key): the stored value, undefined (Null) if none
CacheGetValue(store, key) == store[key].value

\* CacheService.get, the counters after it: a hit if the value is truthy
HitsAfterGet(value, hits) == IF Truthy(value) THEN incrementCacheHit(hits) ELSE hits
\* variant: every get counts a miss
MissesAfterGetAlways(value, misses) == incrementCacheMiss(misses)
MissesAfterGet(value, misses) ==
    IF Truthy(value) THEN misses ELSE incrementCacheMiss(misses)

\* CacheService.get, its result: `return value || null`
OrNull(value) == IF Truthy(value) THEN value ELSE Null

\* variant: the set never reaches the store
CacheSetStoreLost(store, key, value, ttl) == store

\* cacheManager.set(key, value, ttl)
CacheSetStore(store, key, value, ttl) ==
    [store EXCEPT ![key] = [value |-> value, ttl |-> ttl]]

\* variants: the del removes nothing; the del clears the store
CacheDelStoreNoop(store, key) == store
CacheDelStoreAll(store, key) == [k \in DOMAIN store |-> NoEntry]

\* cacheManager.del(key): removing an absent key changes nothing
CacheDelStore(store, key) == [store EXCEPT ![key] = NoEntry]

\* --------------------------------------- read-through: findByEmail/Telefone
\* variant: the cached value is ignored
IsHitNever(cached) == FALSE

\* `if (cached) return cached`
IsHit(cached) == Truthy(cached)

\* variant: a hit sets the entry again, with a full TTL
ReadThroughRefreshing(p, op, arg, cacheKey) ==
    LET value == CacheGetValue(cacheManager, cacheKey)
        cached == OrNull(value)
        r == [Idle EXCEPT !.op = op, !.arg = arg, !.cacheKey = cacheKey,
                          !.cached = cached,
                          !.log = <<Call("cache.get", cacheKey, cached, "ok")>>]
    IN  /\ Enter(p)
        /\ Delivered
        /\ IF IsHit(cached)
           THEN /\ Step(p, [r EXCEPT !.pc = "done", !.result = Ok(cached)])
                /\ cacheManager' = CacheSetStore(cacheManager, cacheKey, cached, CACHE_TTL)
           ELSE /\ Step(p, [r EXCEPT !.pc = "find.dao"])
                /\ UNCHANGED cacheManager
        /\ cacheHits' = HitsAfterGet(value, cacheHits)
        /\ cacheMisses' = MissesAfterGet(value, cacheMisses)
        /\ UNCHANGED pessoas

\* a request enters findByEmail or findByTelefone and runs through
\* `await cacheService.get(cacheKey)` and the hit test
ReadThrough(p, op, arg, cacheKey) ==
    LET value == CacheGetValue(cacheManager, cacheKey)
        cached == OrNull(value)
        r == [Idle EXCEPT !.op = op, !.arg = arg, !.cacheKey = cacheKey,
                          !.cached = cached,
                          !.log = <<Call("cache.get", cacheKey, cached, "ok")>>]
    IN  /\ Enter(p)
        /\ Delivered
        /\ IF IsHit(cached)
           THEN Step(p, [r EXCEPT !.pc = "done", !.result = Ok(cached)])
           ELSE Step(p, [r EXCEPT !.pc = "find.dao"])
        /\ cacheHits' = HitsAfterGet(value, cacheHits)
        /\ cacheMisses' = MissesAfterGet(value, cacheMisses)
        /\ UNCHANGED <<pessoas, cacheManager>>

FindByEmail(p) ==
    \E email \in Emails :
        ReadThrough(p, "findByEmail", [NoData EXCEPT !.email = email],
                    generateKey("findByEmail", <<email>>))

FindByTelefone(p) ==
    \E telefone \in Telefones :
        ReadThrough(p, "findByTelefone", [NoData EXCEPT !.telefone = telefone],
                    generateKey("findByTelefone", <<telefone>>))

\* the DAO read of the lookup
DaoFind(db, op, arg) ==
    IF op = "findByEmail" THEN DaoFindByEmail(db, arg.email)
    ELSE DaoFindByTelefone(db, arg.telefone)

\* variant: the result of the DAO read is cached also when it is null
AfterDaoFindCachesNull(pessoa) == "find.set"

\* the position after a DAO read that found `pessoa`
AfterDaoFind(pessoa) == IF pessoa = Null THEN "done" ELSE "find.set"

\* await pessoaDao.findByEmail(email), then the not-found test
DaoRead(p) ==
    LET r == req[p]
        pessoa == DaoFind(pessoas, r.op, r.arg)
        logged == Append(r.log, Call("dao." \o r.op, NoKey, pessoa, "ok"))
        field == IF r.op = "findByEmail" THEN "email" ELSE "telefone"
    IN  /\ r.pc = "find.dao"
        /\ Delivered
        /\ Step(p, [r EXCEPT !.pc = AfterDaoFind(pessoa), !.pessoa = pessoa,
                             !.log = logged,
                             !.result = IF pessoa = Null THEN NotFound(field)
                                        ELSE NoResult])
        /\ UNCHANGED <<pessoas, cacheManager, cacheHits, cacheMisses, calls, overlapped, since,
                     windowed, observed, endpointMaps, env>>

\* variant: the row is returned without the cache set
CacheSetSkipped(p) ==
    LET r == req[p]
    IN  /\ r.pc = "find.set"
        /\ Delivered
        /\ Step(p, [r EXCEPT !.pc = "done", !.result = Ok(r.pessoa)])
        /\ UNCHANGED <<pessoas, cacheManager, cacheHits, cacheMisses, calls, overlapped, since,
                     windowed, observed, endpointMaps, env>>

\* request q is an update of the record of `row` whose DAO update has returned
\* and whose first del is still to come
InWindow(q, row) ==
    /\ req[q].op = "update"
    /\ req[q].pc = "evict.email"
    /\ \A i \in 1..Len(req[q].log) : req[q].log[i].call # "cache.del"
    /\ req[q].arg.id = row.id

\* a set that is dropped when the row read is no longer the persisted one
CacheSetIfFresh(p) ==
    IF req[p].pc = "find.set" /\ req[p].pessoa \notin Rows(pessoas)
    THEN CacheSetSkipped(p)
    ELSE LET r == req[p]
         IN  /\ r.pc = "find.set"
             /\ Delivered
             /\ windowed' = windowed \ {r.cacheKey}
             /\ cacheManager' = CacheSetStore(cacheManager, r.cacheKey, r.pessoa, CACHE_TTL)
             /\ Step(p, [r EXCEPT !.pc = "done", !.result = Ok(r.pessoa),
                                  !.log = Append(r.log,
                                      [Call("cache.set", r.cacheKey, r.pessoa, "ok")
                                          EXCEPT !.ttl = CACHE_TTL])])
             /\ UNCHANGED <<pessoas, cacheHits, cacheMisses, calls, overlapped, since,
                           observed, endpointMaps, env>>

\* await cacheService.set(cacheKey, pessoa, CACHE_TTL); return pessoa
CacheSet(p) ==
    LET r == req[p]
    IN  /\ r.pc = "find.set"
        /\ Delivered
        /\ windowed' = IF \E q \in Procs \ {p} : InWindow(q, r.pessoa)
                       THEN windowed \cup {r.cacheKey}
                       ELSE windowed \ {r.cacheKey}
        /\ cacheManager' = CacheSetStore(cacheManager, r.cacheKey, r.pessoa, CACHE_TTL)
        /\ Step(p, [r EXCEPT !.pc = "done", !.result = Ok(r.pessoa),
                             !.log = Append(r.log,
                                 [Call("cache.set", r.cacheKey, r.pessoa, "ok")
                                     EXCEPT !.ttl = CACHE_TTL])])
        /\ UNCHANGED <<pessoas, cacheHits, cacheMisses, calls, overlapped, since, observed,
                     endpointMaps, env>>

\* ------------------------------------------------ writes: create/update/delete
\* the store failing for a reason of its own (connection lost, timeout)
StoreDown == "P1001"

\* the column named by error.meta.target[0] of a P2002; the cpf column is
\* not part of the modelled row: its collisions are possible with any other row
TargetFields(db, id, row) ==
    UniqueViolations(db, id, row)
        \cup (IF \E r \in Rows(db) : r.id # id THEN {"cpf"} ELSE {})

\* the ids the store may give a new row (a fresh uuid)
NewIds(db) == {i \in Ids : db[i] = Null}

\* variants: an update that evicts the keys of the new row only, or of the
\* old row only
EvictUpdatedNewTwice(oldPessoa, updatedPessoa) == <<updatedPessoa, updatedPessoa>>
EvictUpdatedNewOnly(oldPessoa, updatedPessoa) == <<updatedPessoa>>
EvictUpdatedOldOnly(oldPessoa, updatedPessoa) == <<oldPessoa>>

\* the rows whose keys a write evicts, in the order of the evictCacheForPessoa calls
EvictCreated(pessoa) == <<pessoa>>
EvictUpdated(oldPessoa, updatedPessoa) == <<oldPessoa, updatedPessoa>>
EvictDeleted(pessoa) == <<pessoa>>

\* variant: the not-found test after getById is missing
AfterGetByIdUntested(op, pessoa) == op \o ".dao"

\* the position after the getById of update and delete
AfterGetById(op, pessoa) == IF pessoa = Null THEN "done" ELSE op \o ".dao"

\* variant: the catch block rethrows every error as it is
CaughtRethrown(code, field) == Raw(code)

\* the catch block of create and update: P2002 becomes a DuplicatePessoaException
Caught(code, field) == IF code = "P2002" THEN Duplicate(field) ELSE Raw(code)

\* variant: the keys of the row read before the write are evicted also when
\* the write threw
FailedStillEvicts(r, call, code, field) ==
    IF r.oldPessoa = Null
    THEN [r EXCEPT !.pc = "done", !.result = Caught(code, field),
                   !.log = Append(r.log, Call(call, NoKey, Null, code))]
    ELSE [r EXCEPT !.pc = "evict.email", !.pessoa = r.oldPessoa,
                   !.todo = <<r.oldPessoa>>,
                   !.log = Append(r.log, Call(call, NoKey, Null, code))]

\* the DAO write `call` of request r threw `code`: the catch block ends the request
Failed(r, call, code, field) ==
    [r EXCEPT !.pc = "done", !.result = Caught(code, field),
              !.log = Append(r.log, Call(call, NoKey, Null, code))]

\* a request enters create and runs through `await pessoaDao.create(data)`,
\* and through the catch block when that throws
Create(p) ==
    /\ Enter(p)
    /\ Delivered
    /\ \E data \in PessoaCreateInput :
        LET r == [Idle EXCEPT !.op = "create", !.arg = data]
        IN  \/ \E id \in NewIds(pessoas) :
                 LET pessoa == [data EXCEPT !.id = id]
                 IN  /\ UniqueViolations(pessoas, id, pessoa) = {}
                     /\ pessoas' = [pessoas EXCEPT ![id] = pessoa]
                     /\ Step(p, [r EXCEPT !.pc = "evict.email", !.pessoa = pessoa,
                                          !.todo = EvictCreated(pessoa),
                                          !.log = <<Call("dao.create", NoKey, pessoa, "ok")>>])
            \/ \E field \in TargetFields(pessoas, 0, data) :
                 /\ Step(p, Failed(r, "dao.create", "P2002", field))
                 /\ UNCHANGED pessoas
            \/ /\ Step(p, Failed(r, "dao.create", StoreDown, "none"))
               /\ UNCHANGED pessoas
    /\ UNCHANGED <<cacheManager, cacheHits, cacheMisses>>

\* variant: the keys are evicted right after the getById, with no DAO write
GetByIdThenEvict(p, op, arg) ==
    LET pessoa == DaoGetById(pessoas, arg.id)
    IN  /\ Enter(p)
        /\ Delivered
        /\ Step(p, [Idle EXCEPT !.op = op, !.arg = arg,
                                !.pc = IF pessoa = Null THEN "done" ELSE "evict.email",
                                !.oldPessoa = pessoa, !.pessoa = pessoa,
                                !.todo = <<pessoa>>,
                                !.result = IF pessoa = Null THEN NotFound("id")
                                           ELSE NoResult,
                                !.log = <<Call("dao.getById", NoKey, pessoa, "ok")>>])
        /\ UNCHANGED <<pessoas, cacheManager, cacheHits, cacheMisses>>

\* a request enters update or delete and runs through
\* `await pessoaDao.getById(id)` and the not-found test
GetById(p, op, arg) ==
    LET pessoa == DaoGetById(pessoas, arg.id)
    IN  /\ Enter(p)
        /\ Delivered
        /\ Step(p, [Idle EXCEPT !.op = op, !.arg = arg,
                                !.pc = AfterGetById(op, pessoa),
                                !.oldPessoa = pessoa,
                                !.result = IF pessoa = Null THEN NotFound("id")
                                           ELSE NoResult,
                                !.log = <<Call("dao.getById", NoKey, pessoa, "ok")>>])
        /\ UNCHANGED <<pessoas, cacheManager, cacheHits, cacheMisses>>

Update(p) ==
    \E id \in Ids, data \in PessoaUpdateInput :
        GetById(p, "update", [data EXCEPT !.id = id])

Delete(p) ==
    \E id \in Ids : GetById(p, "delete", [NoData EXCEPT !.id = id])

\* variant: update writes the new row through to the cache (no failures)
DaoUpdateWriteThrough(p) ==
    LET r == req[p]
        id == r.arg.id
        updatedPessoa == Patched(pessoas[id], r.arg)
    IN  /\ r.pc = "update.dao"
        /\ Delivered
        /\ DaoUpdateErrors(pessoas, id, r.arg) = {}
        /\ pessoas' = [pessoas EXCEPT ![id] = updatedPessoa]
        /\ cacheManager' = CacheSetStore(cacheManager,
                               generateKey("findByEmail", <<updatedPessoa.email>>),
                               updatedPessoa, CACHE_TTL)
        /\ Step(p, [r EXCEPT !.pc = "done",
                             !.pessoa = updatedPessoa,
                             !.result = Ok(updatedPessoa),
                             !.log = Append(r.log,
                                 Call("dao.update", NoKey, updatedPessoa, "ok"))])
        /\ UNCHANGED <<cacheHits, cacheMisses, calls, overlapped, since,
                     windowed, observed, endpointMaps, env>>

\* await pessoaDao.update(id, data), and the catch block when it throws
DaoUpdate(p) ==
    LET r == req[p]
        id == r.arg.id
    IN  /\ r.pc = "update.dao"
        /\ Delivered
        /\ \/ /\ DaoUpdateErrors(pessoas, id, r.arg) = {}
              /\ LET updatedPessoa == Patched(pessoas[id], r.arg)
                 IN  /\ pessoas' = [pessoas EXCEPT ![id] = updatedPessoa]
                     /\ Step(p, [r EXCEPT !.pc = "evict.email",
                                          !.pessoa = updatedPessoa,
                                          !.todo = EvictUpdated(r.oldPessoa, updatedPessoa),
                                          !.log = Append(r.log,
                                              Call("dao.update", NoKey, updatedPessoa, "ok"))])
           \/ /\ pessoas[id] = Null
              /\ Step(p, Failed(r, "dao.update", "P2025", "none"))
              /\ UNCHANGED pessoas
           \/ /\ pessoas[id] # Null
              /\ \E field \in TargetFields(pessoas, id, Patched(pessoas[id], r.arg)) :
                    Step(p, Failed(r, "dao.update", "P2002", field))
              /\ UNCHANGED pessoas
           \/ /\ Step(p, Failed(r, "dao.update", StoreDown, "none"))
              /\ UNCHANGED pessoas
        /\ UNCHANGED <<cacheManager, cacheHits, cacheMisses, calls, overlapped, since,
                     windowed, observed, endpointMaps, env>>

\* variant: delete returns the deleted row without evicting its keys
DaoDeleteNoEvict(p) ==
    LET r == req[p]
        id == r.arg.id
    IN  /\ r.pc = "delete.dao"
        /\ Delivered
        /\ \/ /\ pessoas[id] # Null
              /\ pessoas' = [pessoas EXCEPT ![id] = Null]
              /\ Step(p, [r EXCEPT !.pc = "done", !.pessoa = pessoas[id],
                                   !.result = Ok(pessoas[id]),
                                   !.log = Append(r.log,
                                       Call("dao.delete", NoKey, pessoas[id], "ok"))])
           \/ /\ pessoas[id] = Null
              /\ Step(p, [r EXCEPT !.pc = "done", !.result = Raw("P2025"),
                                   !.log = Append(r.log,
                                       Call("dao.delete", NoKey, Null, "P2025"))])
              /\ UNCHANGED pessoas
        /\ UNCHANGED <<cacheManager, cacheHits, cacheMisses, calls, overlapped, since,
                     windowed, observed, endpointMaps, env>>

\* await pessoaDao.delete(id); delete has no catch block
DaoDelete(p) ==
    LET r == req[p]
        id == r.arg.id
    IN  /\ r.pc = "delete.dao"
        /\ Delivered
        /\ \/ /\ pessoas[id] # Null
              /\ pessoas' = [pessoas EXCEPT ![id] = Null]
              /\ Step(p, [r EXCEPT !.pc = "evict.email", !.pessoa = pessoas[id],
                                   !.todo = EvictDeleted(r.oldPessoa),
                                   !.log = Append(r.log,
                                       Call("dao.delete", NoKey, pessoas[id], "ok"))])
           \/ \E code \in DaoDeleteErrors(pessoas, id) \cup {StoreDown} :
                /\ Step(p, [r EXCEPT !.pc = "done", !.result = Raw(code),
                                     !.log = Append(r.log,
                                         Call("dao.delete", NoKey, Null, code))])
                /\ UNCHANGED pessoas
        /\ UNCHANGED <<cacheManager, cacheHits, cacheMisses, calls, overlapped, since,
                     windowed, observed, endpointMaps, env>>

\* variant: the phone key is built like the email key
TelefoneCacheKeyAsEmail(pessoa) == generateKey("findByEmail", <<pessoa.email>>)

\* variant: the email key is built like the phone key
EmailCacheKeyAsTelefone(pessoa) == generateKey("findByTelefone", <<pessoa.telefone>>)
\* variant: the email key is made of the id, not of the email
EmailCacheKeyOfId(pessoa) ==
    generateKey("findByEmail", <<IF pessoa.id = 1 THEN "a@x" ELSE "b@x">>)

\* the two keys of evictCacheForPessoa
EmailCacheKey(pessoa) == generateKey("findByEmail", <<pessoa.email>>)
TelefoneCacheKey(pessoa) == generateKey("findByTelefone", <<pessoa.telefone>>)

\* evictCacheForPessoa, first await: cacheService.del(emailCacheKey); the log
\* notes the value the del removed
EvictEmail(p) ==
    LET r == req[p]
        emailCacheKey == EmailCacheKey(Head(r.todo))
    IN  /\ r.pc = "evict.email"
        /\ Delivered
        /\ cacheManager' = CacheDelStore(cacheManager, emailCacheKey)
        /\ windowed' = {k \in windowed : cacheManager'[k] # NoEntry}
        /\ Step(p, [r EXCEPT !.pc = "evict.telefone",
                             !.log = Append(r.log,
                                 Call("cache.del", emailCacheKey,
                                      cacheManager[emailCacheKey].value, "ok"))])
        /\ UNCHANGED <<pessoas, cacheHits, cacheMisses, calls, overlapped, since, observed,
                     endpointMaps, env>>

\* evictCacheForPessoa, second await: cacheService.del(telefoneCacheKey); then
\* the next evictCacheForPessoa call of the operation, or its return
EvictTelefone(p) ==
    LET r == req[p]
        telefoneCacheKey == TelefoneCacheKey(Head(r.todo))
        rest == Tail(r.todo)
    IN  /\ r.pc = "evict.telefone"
        /\ Delivered
        /\ cacheManager' = CacheDelStore(cacheManager, telefoneCacheKey)
        /\ windowed' = {k \in windowed : cacheManager'[k] # NoEntry}
        /\ Step(p, [r EXCEPT !.pc = IF rest = <<>> THEN "done" ELSE "evict.email",
                             !.todo = rest,
                             !.result = IF rest = <<>> THEN Ok(r.pessoa) ELSE NoResult,
                             !.log = Append(r.log,
                                 Call("cache.del", telefoneCacheKey,
                                      cacheManager[telefoneCacheKey].value, "ok"))])
        /\ UNCHANGED <<pessoas, cacheHits, cacheMisses, calls, overlapped, since, observed,
                     endpointMaps, env>>

\* the cache store failing (a remote store that is unreachable)
CacheDown == "ECONNREFUSED"

\* variant: evictCacheForPessoa catches the error of a del and goes on
EvictFailsSwallowed(p) ==
    LET r == req[p]
        email == (r.pc = "evict.email")
        key == IF email THEN EmailCacheKey(Head(r.todo))
               ELSE TelefoneCacheKey(Head(r.todo))
        rest == IF email THEN r.todo ELSE Tail(r.todo)
    IN  /\ r.pc \in {"evict.email", "evict.telefone"}
        /\ Delivered
        /\ Step(p, [r EXCEPT !.pc = IF email THEN "evict.telefone"
                                    ELSE IF rest = <<>> THEN "done" ELSE "evict.email",
                             !.todo = rest,
                             !.result = IF ~email /\ rest = <<>> THEN Ok(r.pessoa)
                                        ELSE NoResult,
                             !.log = Append(r.log, Call("cache.del", key, Null, CacheDown))])
        /\ UNCHANGED <<pessoas, cacheManager, cacheHits, cacheMisses, calls, overlapped,
                       since, windowed, observed, endpointMaps, env>>

\* variant: a failing del still removes the entries of the keys that were left
EvictFailsClearsRest(p) ==
    LET r == req[p]
        key == IF r.pc = "evict.email" THEN EmailCacheKey(Head(r.todo))
               ELSE TelefoneCacheKey(Head(r.todo))
        left == {EmailCacheKey(r.todo[i]) : i \in 1..Len(r.todo)}
                    \cup {TelefoneCacheKey(r.todo[i]) : i \in 1..Len(r.todo)}
    IN  /\ r.pc \in {"evict.email", "evict.telefone"}
        /\ Delivered
        /\ cacheManager' = [k \in DOMAIN cacheManager |->
                                IF k \in left THEN NoEntry ELSE cacheManager[k]]
        /\ Step(p, [r EXCEPT !.pc = "done",
                             !.result = Raw(CacheDown),
                             !.log = Append(r.log, Call("cache.del", key, Null, CacheDown))])
        /\ UNCHANGED <<pessoas, cacheHits, cacheMisses, calls, overlapped,
                       since, windowed, observed, endpointMaps, env>>

\* a del of evictCacheForPessoa throws: the error leaves evictCacheForPessoa,
\* passes the catch block of create and update (it is no P2002) and ends the
\* operation; delete has no catch block
EvictFails(p) ==
    LET r == req[p]
        key == IF r.pc = "evict.email" THEN EmailCacheKey(Head(r.todo))
               ELSE TelefoneCacheKey(Head(r.todo))
    IN  /\ r.pc \in {"evict.email", "evict.telefone"}
        /\ Delivered
        /\ Step(p, [r EXCEPT !.pc = "done",
                             !.result = IF r.op = "delete" THEN Raw(CacheDown)
                                        ELSE Caught(CacheDown, "none"),
                             !.log = Append(r.log, Call("cache.del", key, Null, CacheDown))])
        /\ UNCHANGED <<pessoas, cacheManager, cacheHits, cacheMisses, calls, overlapped,
                       since, windowed, observed, endpointMaps, env>>

\* the promise of the operation settles: the request is over
Return(p) ==
    /\ req[p].pc = "done"
    /\ Step(p, Idle)
    /\ UNCHANGED <<pessoas, cacheManager, cacheHits, cacheMisses, calls, overlapped, since,
                     windowed, observed, endpointMaps, env>>

\* the same, seen by a caller that awaits each call and notes what it got
ReturnSeq(p) ==
    /\ req[p].pc = "done"
    /\ Step(p, Idle)
    /\ since' = Noted(req[p])
    /\ UNCHANGED <<pessoas, cacheManager, cacheHits, cacheMisses, calls, overlapped,
                 windowed, observed, endpointMaps, env>>

\* the store drops an entry: its TTL ran out, or the bounded store evicted it
Expire(k) ==
    /\ cacheManager[k] # NoEntry
    /\ Delivered
    /\ cacheManager' = [cacheManager EXCEPT ![k] = NoEntry]
    /\ since' = NoWrite
    /\ windowed' = windowed \ {k}
    /\ UNCHANGED <<pessoas, cacheHits, cacheMisses, req, calls, overlapped, observed,
                 endpointMaps, env>>

Next ==
    \/ \E p \in Procs :
          \/ FindByEmail(p) \/ FindByTelefone(p) \/ DaoRead(p) \/ CacheSet(p)
          \/ Create(p) \/ Update(p) \/ Delete(p) \/ DaoUpdate(p) \/ DaoDelete(p)
          \/ EvictEmail(p) \/ EvictTelefone(p)
          \/ Return(p)
    \/ \E k \in Keys : Expire(k)

Spec == Init /\ [][Next]_vars

\* ---------------------------------------------- requests that do not overlap
\* a caller that awaits each operation before it starts the next one
NoneInFlight == \A q \in Procs : req[q].pc = "idle"

\* the awaiting caller has one request at a time
SeqProcs == {"r1"}

InitSeq ==
    /\ pessoas \in Tables
    /\ cacheManager = [k \in Keys |-> NoEntry]
    /\ cacheHits = 0
    /\ cacheMisses = 0
    /\ req = [p \in Procs |-> Idle]
    /\ calls = MaxSeqCalls
    /\ overlapped = FALSE
    /\ since = NoWrite
    /\ windowed = {}
    /\ NoRequests
    /\ env = Unconfigured
    /\ observed = NoCall

NextSeq ==
    \/ \E p \in SeqProcs :
          /\ NoneInFlight
          /\ \/ FindByEmail(p) \/ FindByTelefone(p)
             \/ Create(p) \/ Update(p) \/ Delete(p)
    \/ \E p \in Procs :
          \/ DaoRead(p) \/ CacheSet(p) \/ DaoUpdate(p) \/ DaoDelete(p)
          \/ EvictEmail(p) \/ EvictTelefone(p)
          \/ ReturnSeq(p)
    \/ \E k \in Keys : Expire(k)

SpecSeq == InitSeq /\ [][NextSeq]_vars

\* --------------------------------- the same caller, with a cache that may fail
InitDown ==
    /\ pessoas \in Tables
    /\ cacheManager = [k \in Keys |-> NoEntry]
    /\ cacheHits = 0
    /\ cacheMisses = 0
    /\ req = [p \in Procs |-> Idle]
    /\ calls = MaxDownCalls
    /\ overlapped = FALSE
    /\ since = NoWrite
    /\ windowed = {}
    /\ NoRequests
    /\ env = Unconfigured
    /\ observed = NoCall

NextDown ==
    \/ NextSeq
    \/ \E p \in Procs : EvictFails(p)

SpecDown == InitDown /\ [][NextDown]_vars

\* ------------------------------------------------- generateKey, called directly
Prefixes == {"findByEmail", "findByTelefone"}

\* the params a caller may pass (any[]): strings, null and undefined
ParamValues == Emails \cup {JsNull, JsUndefined}
ParamLists == UNION {[1..n -> ParamValues] : n \in 0..MaxParams}

\* two calls of generateKey are about to be made
InitKey ==
    /\ pessoas = [i \in Ids |-> Null]
    /\ cacheManager = [k \in Keys |-> NoEntry]
    /\ cacheHits = 0
    /\ cacheMisses = 0
    /\ req = [p \in Procs |-> Idle]
    /\ calls = 0
    /\ overlapped = FALSE
    /\ since = NoWrite
    /\ windowed = {}
    /\ NoRequests
    /\ env = Unconfigured
    /\ observed \in [call : {"generateKey"}, prefix1 : Prefixes, params1 : ParamLists,
                      prefix2 : Prefixes, params2 : ParamLists,
                      key1 : {NoKey}, key2 : {NoKey}]

\* key1 = generateKey(prefix1, params1); key2 = generateKey(prefix2, params2)
GenerateKeys ==
    /\ observed.call = "generateKey"
    /\ observed.key1 = NoKey
    /\ observed' = [observed EXCEPT
                        !.key1 = generateKey(observed.prefix1, observed.params1),
                        !.key2 = generateKey(observed.prefix2, observed.params2)]
    /\ UNCHANGED <<pessoas, cacheManager, cacheHits, cacheMisses, req, calls, overlapped,
                   since, windowed, endpointMaps, env>>

NextKey == GenerateKeys

SpecKey == InitKey /\ [][NextKey]_vars

\* ------------------------------------------------ CacheService, called directly
\* the keys and values of the direct calls: a Pessoa, 0 and ''
DirectKeys == {generateKey("findByEmail", <<e>>) : e \in Emails}
DirectValues ==
    {[id |-> 1, email |-> "a@x", telefone |-> "t1", idade |-> 0], JsZero, JsEmptyString}

\* the n-th direct call, the entry its key had before it, and its result
Direct(n, call, key, value, before, ret) ==
    [n |-> n, call |-> call, key |-> key, value |-> value, before |-> before, ret |-> ret]

InitCache ==
    /\ pessoas = [i \in Ids |-> Null]
    /\ cacheManager = [k \in Keys |-> NoEntry]
    /\ cacheHits = 0
    /\ cacheMisses = 0
    /\ req = [p \in Procs |-> Idle]
    /\ calls = 0
    /\ overlapped = FALSE
    /\ since = NoWrite
    /\ windowed = {}
    /\ NoRequests
    /\ env = Unconfigured
    /\ observed = Direct(0, "none", NoKey, Null, NoEntry, Null)

\* a direct call leaves the table and the requests alone
DirectFrame ==
    /\ observed.n < MaxDirectCalls
    /\ UNCHANGED <<pessoas, req, calls, overlapped, since, windowed, endpointMaps, env>>

\* CacheService.get(key)
get(key) ==
    LET value == CacheGetValue(cacheManager, key)
    IN  /\ DirectFrame
        /\ cacheHits' = HitsAfterGet(value, cacheHits)
        /\ cacheMisses' = MissesAfterGet(value, cacheMisses)
        /\ observed' = Direct(observed.n + 1, "get", key, Null, cacheManager[key],
                              OrNull(value))
        /\ UNCHANGED cacheManager

\* CacheService.set(key, value, ttl)
set(key, value, ttl) ==
    /\ DirectFrame
    /\ cacheManager' = CacheSetStore(cacheManager, key, value, ttl)
    /\ observed' = Direct(observed.n + 1, "set", key, value, cacheManager[key], Null)
    /\ UNCHANGED <<cacheHits, cacheMisses>>

\* CacheService.del(key)
del(key) ==
    /\ DirectFrame
    /\ cacheManager' = CacheDelStore(cacheManager, key)
    /\ observed' = Direct(observed.n + 1, "del", key, Null, cacheManager[key], Null)
    /\ UNCHANGED <<cacheHits, cacheMisses>>

\* CacheService.reset(): cacheManager.reset() clears the store
reset ==
    /\ DirectFrame
    /\ cacheManager' = [k \in Keys |-> NoEntry]
    /\ observed' = Direct(observed.n + 1, "reset", NoKey, Null, NoEntry, Null)
    /\ UNCHANGED <<cacheHits, cacheMisses>>

NextCache ==
    \/ \E key \in DirectKeys :
          \/ get(key)
          \/ \E value \in DirectValues : set(key, value, CACHE_TTL)
          \/ del(key)
    \/ reset
    \/ \E k \in Keys : Expire(k)

SpecCache == InitCache /\ [][NextCache]_vars

\* ----------------------------------------------- MetricsService, called directly
\* A positive double is [m, e]: m its 53 significand bits, the first of them 1,
\* and e the exponent of the last of them; its value is m * 2^e.
Zeros(n) == [i \in 1..n |-> 0]

RECURSIVE BitsToInt(_)
BitsToInt(bits) ==
    IF bits = <<>> THEN 0
    ELSE 2 * BitsToInt(SubSeq(bits, 1, Len(bits) - 1)) + bits[Len(bits)]

\* bits without its leading zeros
Significant(bits) ==
    IF \A i \in 1..Len(bits) : bits[i] = 0 THEN <<>>
    ELSE LET first == CHOOSE i \in 1..Len(bits) :
                          bits[i] = 1 /\ \A j \in 1..(i - 1) : bits[j] = 0
         IN  SubSeq(bits, first, Len(bits))

\* long integers are multiplied and divided a limb of LimbBits bits at a time
LimbBits == 12
Base == 2^LimbBits

BitsOfLimbs(limbs) ==
    [i \in 1..(LimbBits * Len(limbs)) |->
        (limbs[((i - 1) \div LimbBits) + 1]
            \div 2^(LimbBits - 1 - ((i - 1) % LimbBits))) % 2]

LimbsOfBits(bits) ==
    LET n == (Len(bits) + LimbBits - 1) \div LimbBits
        padded == Zeros(n * LimbBits - Len(bits)) \o bits
    IN  [j \in 1..n |->
            BitsToInt(SubSeq(padded, (j - 1) * LimbBits + 1, j * LimbBits))]

\* limbs * factor + carry, from limb j down
RECURSIVE MulAddFrom(_, _, _, _)
MulAddFrom(limbs, j, factor, carry) ==
    IF j = 0 THEN <<carry>>
    ELSE LET v == limbs[j] * factor + carry
         IN  MulAddFrom(limbs, j - 1, factor, v \div Base) \o <<v % Base>>

\* bits * factor + addend, exactly
MulAdd(bits, factor, addend) ==
    LET limbs == LimbsOfBits(bits)
    IN  Significant(BitsOfLimbs(MulAddFrom(limbs, Len(limbs), factor, addend)))

\* the double nearest to bits * 2^e (plus a positive rest below 2^e if
\* `inexact`), ties to the even significand: IEEE 754 round-to-nearest-even
Round53(bits, e, inexact) ==
    LET sig == Significant(bits)
        n == Len(sig)
    IN  IF n <= 53 THEN [m |-> sig \o Zeros(53 - n), e |-> e - (53 - n)]
        ELSE LET kept == SubSeq(sig, 1, 53)
                 rest == inexact \/ \E i \in 55..n : sig[i] = 1
                 up == sig[54] = 1 /\ (rest \/ kept[53] = 1)
                 raised == MulAdd(kept, 1, 1)
             IN  IF ~up THEN [m |-> kept, e |-> e + (n - 53)]
                 ELSE IF Len(raised) = 53 THEN [m |-> raised, e |-> e + (n - 53)]
                 ELSE [m |-> SubSeq(raised, 1, 53), e |-> e + (n - 53) + 1]

\* the limbs of rem / den after the point, and what is left after them
RECURSIVE QuotientLimbs(_, _, _)
QuotientLimbs(rem, den, n) ==
    IF n = 0 THEN <<>>
    ELSE <<(rem * Base) \div den>> \o QuotientLimbs((rem * Base) % den, den, n - 1)

RECURSIVE QuotientRest(_, _, _)
QuotientRest(rem, den, n) ==
    IF n = 0 THEN rem ELSE QuotientRest((rem * Base) % den, den, n - 1)

\* the limbs computed before rounding: 72 binary digits, enough for 53
\* significant ones of any quotient of counters below 1024
FractionLimbs == 6

\* this.cacheHits / total, for 0 < hits <= total
Divide(hits, total) ==
    LET whole == IF hits = total THEN 1 ELSE 0
        rem == hits - whole * total
    IN  Round53(<<whole>> \o BitsOfLimbs(QuotientLimbs(rem, total, FractionLimbs)),
                -(LimbBits * FractionLimbs),
                QuotientRest(rem, total, FractionLimbs) # 0)

\* x * 100
Times100(x) == Round53(MulAdd(x.m, 100, 0), x.e, FALSE)

\* Math.round(x), for 0 < x < 2^52: the whole part, plus one if the rest is
\* a half or more
MathRound(x) ==
    LET whole == 53 + x.e
    IN  IF whole < 0 THEN 0
        ELSE BitsToInt(SubSeq(x.m, 1, whole)) + x.m[whole + 1]

\* MetricsService.getCacheHitRate(), in hundredths of a percent (the code
\* divides the rounded number by 100)
getCacheHitRate(hits, misses) ==
    LET total == hits + misses
    IN  IF total = 0 \/ hits = 0 THEN 0
        ELSE MathRound(Times100(Times100(Divide(hits, total))))

InitMetrics ==
    /\ pessoas = [i \in Ids |-> Null]
    /\ cacheManager = [k \in Keys |-> NoEntry]
    /\ cacheHits = 0
    /\ cacheMisses = 0
    /\ req = [p \in Procs |-> Idle]
    /\ calls = 0
    /\ overlapped = FALSE
    /\ since = NoWrite
    /\ windowed = {}
    /\ NoRequests
    /\ env = Unconfigured
    /\ observed = [call |-> "none", ret |-> 0]

\* a call of MetricsService leaves everything but the counters alone
MetricsFrame ==
    UNCHANGED <<pessoas, cacheManager, req, calls, overlapped, since, windowed, env>>

\* MetricsService.incrementCacheHit()
IncrementCacheHit ==
    /\ cacheHits < MaxHits
    /\ cacheHits' = incrementCacheHit(cacheHits)
    /\ observed' = [call |-> "incrementCacheHit", ret |-> 0]
    /\ UNCHANGED <<cacheMisses, endpointMaps>>
    /\ MetricsFrame

\* variant: incrementCacheMiss counts a hit
IncrementCacheMissAsHit ==
    /\ cacheHits < MaxHits
    /\ cacheHits' = incrementCacheHit(cacheHits)
    /\ observed' = [call |-> "incrementCacheMiss", ret |-> 0]
    /\ UNCHANGED <<cacheMisses, endpointMaps>>
    /\ MetricsFrame

\* MetricsService.incrementCacheMiss()
IncrementCacheMiss ==
    /\ cacheMisses < MaxMisses
    /\ cacheMisses' = incrementCacheMiss(cacheMisses)
    /\ observed' = [call |-> "incrementCacheMiss", ret |-> 0]
    /\ UNCHANGED <<cacheHits, endpointMaps>>
    /\ MetricsFrame

\* MetricsService.getCacheHitRate()
GetCacheHitRate ==
    /\ observed' = [call |-> "getCacheHitRate",
                    ret |-> getCacheHitRate(cacheHits, cacheMisses)]
    /\ UNCHANGED <<cacheHits, cacheMisses, endpointMaps>>
    /\ MetricsFrame

\* variant: reset() keeps the error counts
MetricsResetKeepsErrors ==
    /\ cacheHits' = 0
    /\ cacheMisses' = 0
    /\ requestCounts' = << >>
    /\ responseTimes' = << >>
    /\ UNCHANGED errorCounts
    /\ observed' = [call |-> "reset", ret |-> 0,
                    before |-> [hits |-> cacheHits, misses |-> cacheMisses,
                                requests |-> requestCounts, errors |-> errorCounts]]
    /\ MetricsFrame

\* MetricsService.reset()
MetricsReset ==
    /\ cacheHits' = 0
    /\ cacheMisses' = 0
    /\ requestCounts' = << >>
    /\ responseTimes' = << >>
    /\ errorCounts' = << >>
    /\ observed' = [call |-> "reset", ret |-> 0,
                    before |-> [hits |-> cacheHits, misses |-> cacheMisses,
                                requests |-> requestCounts, errors |-> errorCounts]]
    /\ MetricsFrame

NextMetrics ==
    \/ IncrementCacheHit
    \/ IncrementCacheMiss
    \/ GetCacheHitRate
    \/ MetricsReset

SpecMetrics == InitMetrics /\ [][NextMetrics]_vars

\* ------------------------------------------- MetricsService, request tracking
Methods == {"GET", "POST"}
Paths == {"/pessoas"}
ResponseTimes == {5, 20}
StatusCodes == {200, 399, 400, 500}

\* `${method} ${path}`
EndpointKey(method, path) == method \o " " \o path

\* map.get(key) || 0
GetOrZero(map, key) == IF key \in DOMAIN map THEN map[key] ELSE 0

\* map.set(key, value)
MapSet(map, key, value) ==
    [k \in DOMAIN map \cup {key} |-> IF k = key THEN value ELSE map[k]]

\* Array.from(map.values()).reduce((a, b) => a + b, 0)
RECURSIVE SumOver(_, _)
SumOver(map, keys) ==
    IF keys = {} THEN 0
    ELSE LET k == CHOOSE x \in keys : TRUE
         IN  map[k] + SumOver(map, keys \ {k})

Total(map) == SumOver(map, DOMAIN map)

\* variant: only 5xx counts as an error
IsErrorServerOnly(statusCode) == statusCode >= 500

\* statusCode >= 400
IsError(statusCode) == statusCode >= 400

\* some cache traffic has been counted, no request tracked yet
InitRequests ==
    /\ pessoas = [i \in Ids |-> Null]
    /\ cacheManager = [k \in Keys |-> NoEntry]
    /\ cacheHits \in 0..MaxCounted
    /\ cacheMisses \in 0..MaxCounted
    /\ req = [p \in Procs |-> Idle]
    /\ calls = 0
    /\ overlapped = FALSE
    /\ since = NoWrite
    /\ windowed = {}
    /\ NoRequests
    /\ env = Unconfigured
    /\ observed = [call |-> "none", ret |-> 0]

\* variant: the latency of a failed request is not stored
trackRequestSamplesPassing(method, path, responseTime, statusCode) ==
    LET key == EndpointKey(method, path)
        times == IF key \in DOMAIN responseTimes THEN responseTimes[key] ELSE << >>
    IN  /\ requestCounts' = MapSet(requestCounts, key, GetOrZero(requestCounts, key) + 1)
        /\ responseTimes' = MapSet(responseTimes, key,
                                   IF IsError(statusCode) THEN times
                                   ELSE Append(times, responseTime))
        /\ errorCounts' = IF IsError(statusCode)
                            THEN MapSet(errorCounts, key, GetOrZero(errorCounts, key) + 1)
                            ELSE errorCounts
        /\ observed' = [call |-> "trackRequest", key |-> key,
                        responseTime |-> responseTime, statusCode |-> statusCode]

\* the body of MetricsService.trackRequest: what it does to the three maps
trackRequest(method, path, responseTime, statusCode) ==
    LET key == EndpointKey(method, path)
        times == IF key \in DOMAIN responseTimes THEN responseTimes[key] ELSE << >>
    IN  /\ requestCounts' = MapSet(requestCounts, key, GetOrZero(requestCounts, key) + 1)
        /\ responseTimes' = MapSet(responseTimes, key, Append(times, responseTime))
        /\ errorCounts' = IF IsError(statusCode)
                            THEN MapSet(errorCounts, key, GetOrZero(errorCounts, key) + 1)
                            ELSE errorCounts
        /\ observed' = [call |-> "trackRequest", key |-> key,
                        responseTime |-> responseTime, statusCode |-> statusCode]

\* MetricsService.trackRequest(method, path, responseTime, statusCode)
TrackRequest(method, path, responseTime, statusCode) ==
    /\ Total(requestCounts) < MaxTracked
    /\ trackRequest(method, path, responseTime, statusCode)
    /\ UNCHANGED <<cacheHits, cacheMisses>>
    /\ MetricsFrame

\* what MetricsService.getMetrics() returns, without its clock readings and
\* its per-endpoint averages; hitRate in hundredths of a percent
getMetrics ==
    [cache |-> [hits |-> cacheHits,
                misses |-> cacheMisses,
                hitRate |-> getCacheHitRate(cacheHits, cacheMisses),
                total |-> cacheHits + cacheMisses],
     requests |-> [total |-> Total(requestCounts),
                   byEndpoint |-> [k \in DOMAIN requestCounts |->
                                      [requests |-> requestCounts[k],
                                       errors |-> GetOrZero(errorCounts, k)]]],
     errors |-> [total |-> Total(errorCounts)]]

\* MetricsService.getMetrics()
GetMetrics ==
    /\ observed' = [call |-> "getMetrics", ret |-> getMetrics]
    /\ UNCHANGED <<cacheHits, cacheMisses, endpointMaps>>
    /\ MetricsFrame

NextRequests ==
    \/ \E method \in Methods, path \in Paths, t \in ResponseTimes, status \in StatusCodes :
          TrackRequest(method, path, t, status)
    \/ GetMetrics
    \/ MetricsReset

SpecRequests == InitRequests /\ [][NextRequests]_vars

\* --------------------------------------- two Persons, looked up and looked up again
\* fresh metrics, an empty cache and an empty table
InitScenario ==
    /\ pessoas = [i \in Ids |-> Null]
    /\ cacheManager = [k \in Keys |-> NoEntry]
    /\ cacheHits = 0
    /\ cacheMisses = 0
    /\ req = [p \in Procs |-> Idle]
    /\ calls = MaxScenarioCalls
    /\ overlapped = FALSE
    /\ since = NoWrite
    /\ windowed = {}
    /\ NoRequests
    /\ env = Unconfigured
    /\ observed = NoCall

\* one client that creates and looks up by email, each call awaited, and reads
\* the metrics between calls
NextScenario ==
    \/ \E p \in SeqProcs :
          /\ NoneInFlight
          /\ \/ Create(p) \/ FindByEmail(p)
    \/ \E p \in Procs :
          \/ DaoRead(p) \/ CacheSet(p)
          \/ EvictEmail(p) \/ EvictTelefone(p)
          \/ ReturnSeq(p)
    \/ \E k \in Keys : Expire(k)
    \/ NoneInFlight /\ GetMetrics

SpecScenario == InitScenario /\ [][NextScenario]_vars

\* ------------------------------------------------ findById and findByName
\* prisma.pessoa.findMany on the nome column, which is not part of the modelled
\* row: any of the rows may match, listed by id
RECURSIVE Listed(_, _)
Listed(db, ids) ==
    IF ids = {} THEN << >>
    ELSE LET i == CHOOSE x \in ids : \A y \in ids : x <= y
         IN  <<db[i]>> \o Listed(db, ids \ {i})

DaoFindByName(db) == {Listed(db, ids) : ids \in SUBSET {i \in Ids : db[i] # Null}}

\* variant: findById looks into the cache first and counts a miss
FindByIdCounted(p) ==
    \E id \in Ids :
        LET pessoa == DaoGetById(pessoas, id)
            r == [Idle EXCEPT !.op = "findById", !.arg = [NoData EXCEPT !.id = id],
                              !.pessoa = pessoa, !.pc = "done",
                              !.log = <<Call("dao.getById", NoKey, pessoa, "ok")>>]
        IN  /\ Enter(p)
            /\ Delivered
            /\ Step(p, [r EXCEPT !.result = IF pessoa = Null THEN NotFound("id")
                                                ELSE Ok(pessoa)])
            /\ cacheMisses' = incrementCacheMiss(cacheMisses)
            /\ UNCHANGED <<pessoas, cacheManager, cacheHits>>

\* PessoaService.findById(id)
FindById(p) ==
    \E id \in Ids :
        LET pessoa == DaoGetById(pessoas, id)
            r == [Idle EXCEPT !.op = "findById", !.arg = [NoData EXCEPT !.id = id],
                              !.pessoa = pessoa, !.pc = "done",
                              !.log = <<Call("dao.getById", NoKey, pessoa, "ok")>>]
        IN  /\ Enter(p)
            /\ Delivered
            /\ Step(p, [r EXCEPT !.result = IF pessoa = Null THEN NotFound("id")
                                                ELSE Ok(pessoa)])
            /\ UNCHANGED <<pessoas, cacheManager, cacheHits, cacheMisses>>

\* PessoaService.findByName(nome)
FindByName(p) ==
    \E found \in DaoFindByName(pessoas) :
        /\ Enter(p)
        /\ Delivered
        /\ Step(p, [Idle EXCEPT !.op = "findByName", !.found = found, !.pc = "done",
                                !.result = Ok(Null),
                                !.log = <<Call("dao.findByName", NoKey, Null, "ok")>>])
        /\ UNCHANGED <<pessoas, cacheManager, cacheHits, cacheMisses>>

InitReads ==
    /\ pessoas \in Tables
    /\ cacheManager = [k \in Keys |-> NoEntry]
    /\ cacheHits = 0
    /\ cacheMisses = 0
    /\ req = [p \in Procs |-> Idle]
    /\ calls = MaxReadCalls
    /\ overlapped = FALSE
    /\ since = NoWrite
    /\ windowed = {}
    /\ NoRequests
    /\ env = Unconfigured
    /\ observed = NoCall

\* the awaiting caller of NextSeq also calls findById and findByName
NextReads ==
    \/ NextSeq
    \/ \E p \in SeqProcs :
          /\ NoneInFlight
          /\ \/ FindById(p) \/ FindByName(p)

SpecReads == InitReads /\ [][NextReads]_vars

\* ------------------------------------------------------ HttpExceptionFilter
\* undefined is the empty sequence, a defined object is wrapped in a sequence
Undefined == << >>
Defined(object) == <<object>>

\* an exception as the filter sees it: `http` says it is an HttpException,
\* `response` is what getResponse() returns (an object or a string)
HttpException(name, status, response) ==
    [name |-> name, http |-> TRUE, status |-> status, response |-> response,
     message |-> IF response.kind = "object" THEN response.message ELSE response.text,
     code |-> JsUndefined, target |-> Undefined]

ObjectResponse(error, message, details) ==
    [kind |-> "object", error |-> error, message |-> message, details |-> details,
     text |-> JsUndefined]

StringResponse(text) ==
    [kind |-> "string", error |-> JsUndefined, message |-> JsUndefined,
     details |-> Undefined, text |-> text]

\* an error that is no HttpException
PlainError(name, message, code, target) ==
    [name |-> name, http |-> FALSE, status |-> 0,
     response |-> [kind |-> "null", error |-> JsUndefined, message |-> JsUndefined,
                   details |-> Undefined, text |-> JsUndefined],
     message |-> message, code |-> code, target |-> target]

\* new PessoaNotFoundException(identifier, type)
PessoaNotFoundException(identifier, type) ==
    HttpException("PessoaNotFoundException", 404,
        ObjectResponse("PESSOA_NOT_FOUND",
                       "Pessoa with " \o type \o " \"" \o identifier \o "\" not found",
                       Defined([key |-> type, value |-> identifier])))

\* new DuplicatePessoaException(field, value)
DuplicatePessoaException(field, value) ==
    HttpException("DuplicatePessoaException", 409,
        ObjectResponse("DUPLICATE_PESSOA",
                       "Pessoa with " \o field \o " \"" \o value \o "\" already exists",
                       Defined([field |-> field, value |-> value])))

\* the exceptions thrown at the filter
Exceptions ==
    {PessoaNotFoundException(v, t) : v \in Emails, t \in {"email", "telefone"}}
      \cup {DuplicatePessoaException(f, v) : f \in {"email", "telefone"}, v \in Emails}
      \cup {HttpException("BadRequestException", 400,
                ObjectResponse("Bad Request", m, Undefined)) :
                    m \in {"email must be an email", "idade must not be less than 0"}}
      \cup {HttpException("HttpException", 410, StringResponse("Gone"))}
      \cup {PlainError("PrismaClientKnownRequestError", "Unique constraint failed", "P2002", t) :
                t \in {Undefined, Defined("email")}}
      \cup {PlainError("Error", "connect ECONNREFUSED", JsUndefined, Undefined)}

\* process.env.EXPOSE_ERROR_DETAILS
EnvValues == {"true", "false", "TRUE", JsUndefined}

\* this.exposeErrorDetails = process.env.EXPOSE_ERROR_DETAILS === 'true'
exposeErrorDetails(value) == value = "true"

\* a || b, for strings
OrElse(a, b) == IF a \in {JsUndefined, ""} THEN b ELSE a

\* exception instanceof HttpException ? exception.getStatus() : 500
getStatus(exception) == IF exception.http THEN exception.status ELSE 500

errorCode(exception) ==
    IF exception.code = "P2002" THEN "DUPLICATE_ENTRY"
    ELSE IF exception.response.kind = "object"
    THEN OrElse(exception.response.error, OrElse(exception.name, "INTERNAL_SERVER_ERROR"))
    ELSE "INTERNAL_SERVER_ERROR"

\* exception.meta?.target?.[0] || 'field'
TargetField(exception) ==
    IF exception.target = Undefined THEN "field" ELSE OrElse(exception.target[1], "field")

errorMessage(exception) ==
    IF exception.code = "P2002"
    THEN "A record with this " \o TargetField(exception) \o " already exists"
    ELSE IF exception.response.kind = "object"
    THEN OrElse(exception.response.message, "An unexpected error occurred")
    ELSE IF exception.response.kind = "string" THEN exception.response.text
    ELSE OrElse(exception.message, "An unexpected error occurred")

errorDetails(exception) ==
    IF exception.code = "P2002"
    THEN Defined([field |-> TargetField(exception), constraint |-> "unique"])
    ELSE IF exception.response.kind = "object" THEN exception.response.details
    ELSE Undefined

\* genericMessages[status] || 'Request failed'
genericMessages(status) ==
    CASE status = 400 -> "Invalid request data"
      [] status = 401 -> "Authentication required"
      [] status = 403 -> "Access forbidden"
      [] status = 404 -> "Resource not found"
      [] status = 409 -> "Resource conflict - unable to process request"
      [] status = 422 -> "Unable to process request"
      [] OTHER -> "Request failed"

\* variant: every status is sanitized but 409
SanitizedButConflict(expose, status) == ~expose /\ status < 500 /\ status # 409

\* if (!this.exposeErrorDetails && status < 500)
Sanitized(expose, status) == ~expose /\ status < 500

\* the body of the response, without its timestamp and path
errorResponse(exception, expose) ==
    LET status == getStatus(exception)
    IN  [statusCode |-> status,
         error |-> errorCode(exception),
         message |-> IF Sanitized(expose, status) THEN genericMessages(status)
                     ELSE errorMessage(exception),
         details |-> IF Sanitized(expose, status) THEN Undefined
                     ELSE errorDetails(exception)]

\* what the logger receives: error for 5xx, warn otherwise
logged(exception, expose) ==
    [level |-> IF getStatus(exception) >= 500 THEN "error" ELSE "warn",
     message |-> errorMessage(exception),
     statusCode |-> getStatus(exception),
     errorCode |-> errorCode(exception),
     details |-> errorDetails(exception),
     exposedToClient |-> expose]

NoResponse == [statusCode |-> 0, error |-> "none", message |-> "none", details |-> Undefined]

\* two requests are about to fail, in one process
InitFilter ==
    /\ pessoas = [i \in Ids |-> Null]
    /\ cacheManager = [k \in Keys |-> NoEntry]
    /\ cacheHits = 0
    /\ cacheMisses = 0
    /\ req = [p \in Procs |-> Idle]
    /\ calls = 0
    /\ overlapped = FALSE
    /\ since = NoWrite
    /\ windowed = {}
    /\ NoRequests
    /\ env = Unconfigured
    /\ observed \in [call : {"catch"}, env : EnvValues,
                      exception1 : Exceptions, exception2 : Exceptions,
                      response1 : {NoResponse}, response2 : {NoResponse},
                      logged1 : {NoResponse}, logged2 : {NoResponse}]

\* HttpExceptionFilter.catch(exception1, host); catch(exception2, host)
Catch ==
    /\ observed.call = "catch"
    /\ observed.response1 = NoResponse
    /\ LET expose == exposeErrorDetails(observed.env)
       IN  observed' = [observed EXCEPT
                           !.response1 = errorResponse(observed.exception1, expose),
                           !.response2 = errorResponse(observed.exception2, expose),
                           !.logged1 = logged(observed.exception1, expose),
                           !.logged2 = logged(observed.exception2, expose)]
    /\ UNCHANGED <<pessoas, cacheManager, cacheHits, cacheMisses, req, calls, overlapped,
                   since, windowed, endpointMaps, env>>

NextFilter == Catch

SpecFilter == InitFilter /\ [][NextFilter]_vars

\* ------------------------------------------ a lookup by email racing a write
\* one Person is persisted; the cache is empty
InitRace ==
    /\ pessoas \in {db \in Tables : db[1] # Null /\ db[2] = Null}
    /\ cacheManager = [k \in Keys |-> NoEntry]
    /\ cacheHits = 0
    /\ cacheMisses = 0
    /\ req = [p \in Procs |-> Idle]
    /\ calls = MaxRaceCalls
    /\ overlapped = FALSE
    /\ since = NoWrite
    /\ windowed = {}
    /\ NoRequests
    /\ env = Unconfigured
    /\ observed = NoCall

\* concurrent findByEmail, update and delete
NextRace ==
    \/ \E p \in Procs :
          \/ FindByEmail(p) \/ DaoRead(p) \/ CacheSet(p)
          \/ Update(p) \/ Delete(p) \/ DaoUpdate(p) \/ DaoDelete(p)
          \/ EvictEmail(p) \/ EvictTelefone(p)
          \/ Return(p)
    \/ \E k \in Keys : Expire(k)

SpecRace == InitRace /\ [][NextRace]_vars

\* ------------------------------ CacheService calls of interleaving clients
\* the gets that have completed since the last MetricsService.reset()
Completed(o) == IF o.call \in {"none", "reset"} THEN 0 ELSE o.completed

\* a client's call of CacheService, the gets completed so far and its result
Counted(call, completed, ret) == [call |-> call, completed |-> completed, ret |-> ret]

InitCount ==
    /\ pessoas = [i \in Ids |-> Null]
    /\ cacheManager = [k \in Keys |-> NoEntry]
    /\ cacheHits = 0
    /\ cacheMisses = 0
    /\ req = [p \in Procs |-> Idle]
    /\ calls = MaxCountCalls
    /\ overlapped = FALSE
    /\ since = NoWrite
    /\ windowed = {}
    /\ NoRequests
    /\ env = Unconfigured
    /\ observed = [call |-> "none", ret |-> 0]

\* what a call of CacheService leaves alone
CountFrame == UNCHANGED <<pessoas, overlapped, since, windowed, endpointMaps, env>>

\* variant: the counter is bumped when the get is issued and again when it
\* resumes
GetAwaitCounted(p, key) ==
    /\ req[p].pc = "idle"
    /\ calls > 0
    /\ calls' = calls - 1
    /\ Step(p, [Idle EXCEPT !.pc = "get.await", !.op = "get", !.cacheKey = key,
                            !.cached = CacheGetValue(cacheManager, key)])
    /\ cacheMisses' = incrementCacheMiss(cacheMisses)
    /\ UNCHANGED <<cacheManager, cacheHits, observed>>
    /\ CountFrame

\* a client calls CacheService.get(key): `await this.cacheManager.get<T>(key)`
\* reads the store and suspends the call
GetAwait(p, key) ==
    /\ req[p].pc = "idle"
    /\ calls > 0
    /\ calls' = calls - 1
    /\ Step(p, [Idle EXCEPT !.pc = "get.await", !.op = "get", !.cacheKey = key,
                            !.cached = CacheGetValue(cacheManager, key)])
    /\ UNCHANGED <<cacheManager, cacheHits, cacheMisses, observed>>
    /\ CountFrame

\* the get resumes: the hit test, one increment, `return value || null`
GetResume(p) ==
    LET value == req[p].cached
    IN  /\ req[p].pc = "get.await"
        /\ cacheHits' = HitsAfterGet(value, cacheHits)
        /\ cacheMisses' = MissesAfterGet(value, cacheMisses)
        /\ observed' = Counted("get", Completed(observed) + 1, OrNull(value))
        /\ Step(p, Idle)
        /\ UNCHANGED <<cacheManager, calls>>
        /\ CountFrame

\* a client's CacheService.set, del or reset: one call of the store
SetCall(p, key, value) ==
    /\ req[p].pc = "idle"
    /\ calls > 0
    /\ calls' = calls - 1
    /\ cacheManager' = CacheSetStore(cacheManager, key, value, CACHE_TTL)
    /\ observed' = Counted("set", Completed(observed), Null)
    /\ UNCHANGED <<req, cacheHits, cacheMisses>>
    /\ CountFrame

DelCall(p, key) ==
    /\ req[p].pc = "idle"
    /\ calls > 0
    /\ calls' = calls - 1
    /\ cacheManager' = CacheDelStore(cacheManager, key)
    /\ observed' = Counted("del", Completed(observed), Null)
    /\ UNCHANGED <<req, cacheHits, cacheMisses>>
    /\ CountFrame

ResetCall(p) ==
    /\ req[p].pc = "idle"
    /\ calls > 0
    /\ calls' = calls - 1
    /\ cacheManager' = [k \in Keys |-> NoEntry]
    /\ observed' = Counted("cache.reset", Completed(observed), Null)
    /\ UNCHANGED <<req, cacheHits, cacheMisses>>
    /\ CountFrame

NextCount ==
    \/ \E p \in Procs :
          \/ \E key \in DirectKeys :
                \/ GetAwait(p, key)
                \/ \E value \in DirectValues : SetCall(p, key, value)
                \/ DelCall(p, key)
          \/ GetResume(p)
          \/ ResetCall(p)
    \/ (cacheHits + cacheMisses > 0 /\ MetricsReset)

SpecCount == InitCount /\ [][NextCount]_vars

\* ------------------------------------------------------- LoggingInterceptor
\* how a handler ends: its observable emits the response body, the response
\* having the status code of the route, or it fails with an error that has a
\* status (an HttpException) or none (a Prisma error, a TypeError)
Outcomes ==
    [failed : {FALSE}, statusCode : {200, 201}, status : {Undefined}]
        \cup [failed : {TRUE}, statusCode : {200},
              status : {Undefined, Defined(404), Defined(409), Defined(500)}]

\* variant: the status code is read from the response also when the handler
\* failed
TrackedStatusOfResponse(outcome) == outcome.statusCode

\* `const { statusCode } = response` in next, `error.status || 500` in error
TrackedStatus(outcome) ==
    IF ~outcome.failed THEN outcome.statusCode
    ELSE IF outcome.status = Undefined \/ outcome.status = Defined(0) THEN 500
    ELSE outcome.status[1]

InitHttp ==
    /\ pessoas = [i \in Ids |-> Null]
    /\ cacheManager = [k \in Keys |-> NoEntry]
    /\ cacheHits = 0
    /\ cacheMisses = 0
    /\ req = [p \in Procs |-> Idle]
    /\ calls = MaxHttpCalls
    /\ overlapped = FALSE
    /\ since = NoWrite
    /\ windowed = {}
    /\ NoRequests
    /\ env = Unconfigured
    /\ observed = [call |-> "none", ret |-> 0]

\* intercept(context, next) up to `return next.handle().pipe(tap(...))`: the
\* request is logged and its handler starts
Intercept(p, method, url) ==
    /\ req[p].pc = "idle"
    /\ calls > 0
    /\ calls' = calls - 1
    /\ Step(p, [Idle EXCEPT !.pc = "http.handling", !.op = method, !.cacheKey = url])
    /\ UNCHANGED <<pessoas, cacheManager, cacheHits, cacheMisses, overlapped, since,
                 windowed, observed, endpointMaps, env>>

\* the handler's observable emits or fails: the next or the error callback of
\* tap runs, and calls trackRequest
Tap(p, outcome, responseTime) ==
    /\ req[p].pc = "http.handling"
    /\ trackRequest(req[p].op, req[p].cacheKey, responseTime, TrackedStatus(outcome))
    /\ Step(p, [req[p] EXCEPT !.pc = "done", !.found = <<outcome>>])
    /\ UNCHANGED <<pessoas, cacheManager, cacheHits, cacheMisses, calls, overlapped, since,
                 windowed, env>>

NextHttp ==
    \/ \E p \in Procs :
          \/ \E method \in Methods, url \in Paths : Intercept(p, method, url)
          \/ \E outcome \in Outcomes, t \in ResponseTimes : Tap(p, outcome, t)
          \/ Return(p)

SpecHttp == InitHttp /\ [][NextHttp]_vars

\* ------------------------------------------ PessoaController: PUT /pessoas/:id
\* new NotFoundException(message)
NotFoundException(message) ==
    HttpException("NotFoundException", 404, ObjectResponse("Not Found", message, Undefined))

\* PessoaController.update: `try { return await this.pessoaService.update(id,
\* updateDto) } catch { throw new NotFoundException(...) }`, and the status the
\* response gets
ControllerUpdate(result) ==
    IF result.kind = "ok"
    THEN [status |-> 200, body |-> result.value]
    ELSE [status |-> getStatus(NotFoundException("Pessoa with ID not found")),
          body |-> Null]

InitPut ==
    /\ pessoas \in Tables
    /\ cacheManager = [k \in Keys |-> NoEntry]
    /\ cacheHits = 0
    /\ cacheMisses = 0
    /\ req = [p \in Procs |-> Idle]
    /\ calls = MaxPutCalls
    /\ overlapped = FALSE
    /\ since = NoWrite
    /\ windowed = {}
    /\ NoRequests
    /\ env = Unconfigured
    /\ observed = NoCall

\* the service call of the controller has settled: the response is sent
PutRespond(p) ==
    /\ req[p].pc = "done"
    /\ req[p].op = "update"
    /\ observed' = [call |-> "PUT /pessoas/:id", result |-> req[p].result,
                    response |-> ControllerUpdate(req[p].result)]
    /\ Step(p, Idle)
    /\ UNCHANGED <<pessoas, cacheManager, cacheHits, cacheMisses, calls, overlapped, since,
                 windowed, endpointMaps, env>>

\* one client that sends PUT requests and awaits each response
NextPut ==
    \/ \E p \in SeqProcs : NoneInFlight /\ Update(p)
    \/ \E p \in Procs :
          \/ DaoUpdate(p)
          \/ EvictEmail(p) \/ EvictTelefone(p)
          \/ PutRespond(p)

SpecPut == InitPut /\ [][NextPut]_vars

\* ------------------------------------------------- entries that age with time
\* the time that passes in one step of the clock
TickMs == CACHE_TTL \div TtlTicks

\* the store after TickMs: the time to live of every entry is that much
\* shorter, and the entries whose time is over are gone
Aged(store) ==
    [k \in DOMAIN store |->
        IF store[k] = NoEntry \/ store[k].ttl <= TickMs
        THEN NoEntry
        ELSE [store[k] EXCEPT !.ttl = @ - TickMs]]

Tick ==
    /\ \E k \in Keys : cacheManager[k] # NoEntry
    /\ Delivered
    /\ cacheManager' = Aged(cacheManager)
    /\ since' = NoWrite
    /\ windowed' = {k \in windowed : cacheManager'[k] # NoEntry}
    /\ UNCHANGED <<pessoas, cacheHits, cacheMisses, req, calls, overlapped, observed,
                 endpointMaps, env>>

\* one Person is persisted; the cache is empty
InitTtl ==
    /\ pessoas \in {db \in Tables : /\ db[1] # Null /\ db[2] = Null
                                    /\ db[1].email = "a@x" /\ db[1].telefone = "t1"}
    /\ cacheManager = [k \in Keys |-> NoEntry]
    /\ cacheHits = 0
    /\ cacheMisses = 0
    /\ req = [p \in Procs |-> Idle]
    /\ calls = MaxTtlCalls
    /\ overlapped = FALSE
    /\ since = NoWrite
    /\ windowed = {}
    /\ NoRequests
    /\ env = Unconfigured
    /\ observed = NoCall

\* concurrent lookups and updates, with a clock instead of arbitrary expiry
NextTtl ==
    \/ \E p \in Procs :
          \/ FindByEmail(p) \/ DaoRead(p) \/ CacheSet(p)
          \/ Update(p) \/ DaoUpdate(p)
          \/ EvictEmail(p) \/ EvictTelefone(p)
          \/ Return(p)
    \/ Tick

SpecTtl == InitTtl /\ [][NextTtl]_vars

\* ------------------------------------------------------ cache configuration
\* the values CACHE_TTL_SECONDS and CACHE_MAX_ITEMS are given
CacheTtlSettings == {JsUndefined, "300", "60"}
CacheMaxSettings == {JsUndefined, "100", "10"}

\* parseInt, on the decimal strings above
parseInt(string) ==
    CASE string = "300" -> 300
      [] string = "100" -> 100
      [] string = "60" -> 60
      [] string = "10" -> 10

\* the options AppModule registers its global cache with
AppModuleRegister(e) ==
    [ttl |-> parseInt(OrElse(e.CACHE_TTL_SECONDS, "300")) * 1000,
     max |-> parseInt(OrElse(e.CACHE_MAX_ITEMS, "100"))]

\* the options CacheModule registers the cache of its CacheService with
CacheModuleRegister == [ttl |-> 300000, max |-> 100]

\* the service starts under any setting of the two variables
InitConfig ==
    /\ pessoas \in Tables
    /\ cacheManager = [k \in Keys |-> NoEntry]
    /\ cacheHits = 0
    /\ cacheMisses = 0
    /\ req = [p \in Procs |-> Idle]
    /\ calls = MaxConfigCalls
    /\ overlapped = FALSE
    /\ since = NoWrite
    /\ windowed = {}
    /\ NoRequests
    /\ env \in [CACHE_TTL_SECONDS : CacheTtlSettings, CACHE_MAX_ITEMS : CacheMaxSettings]
    /\ observed = NoCall

SpecConfig == InitConfig /\ [][NextSeq]_vars

\* ================================================================== claims
Finds == {"findByEmail", "findByTelefone"}
DaoReadCalls == {"dao.findByEmail", "dao.findByTelefone"}
DaoWriteCalls == {"dao.create", "dao.update", "dao.delete"}

\* the calls of a log whose name is in `names`
Only(log, names) ==
    LET Named(c) == c.call \in names IN SelectSeq(log, Named)

\* the keys of the cache.del calls of a log, in order
DelKeys(log) ==
    LET dels == Only(log, {"cache.del"}) IN [i \in 1..Len(dels) |-> dels[i].key]

Evicting(p) == req[p].pc \in {"evict.email", "evict.telefone"}

\* the row the table holds now under the email or phone of key k
Persisted(k) ==
    IF \E e \in Emails : k = generateKey("findByEmail", <<e>>)
    THEN DaoFindByEmail(pessoas,
                        CHOOSE e \in Emails : k = generateKey("findByEmail", <<e>>))
    ELSE DaoFindByTelefone(pessoas,
                        CHOOSE t \in Telefones : k = generateKey("findByTelefone", <<t>>))

Coherent ==
    \A k \in Keys : cacheManager[k] # NoEntry => cacheManager[k].value = Persisted(k)

C2_DaoReadsPerLookup ==
    \A p \in Procs :
        req[p].op \in Finds =>
            LET log == req[p].log
                reads == Len(Only(log, DaoReadCalls))
            IN  /\ log[1].call = "cache.get"
                /\ reads <= 1
                /\ log[1].row # Null =>
                      /\ reads = 0
                      /\ req[p].pc = "done"
                      /\ req[p].result = Ok(log[1].row)
                /\ (log[1].row = Null /\ req[p].pc = "done") => reads = 1

\* a findByTelefone was answered from the cache
C2_Witness ==
    \E p \in Procs :
        /\ req[p].pc = "done" /\ req[p].op = "findByTelefone"
        /\ req[p].log[1].row # Null

\* C3, the outcome: a lookup that raised NotFound called cache get (a miss) and
\* the DAO (no row) and nothing else, so no cache set.
C3_NotFoundLog ==
    \A p \in Procs :
        (req[p].op \in Finds /\ req[p].result.kind = "NotFound") =>
            /\ Len(req[p].log) = 2
            /\ req[p].log[1].call = "cache.get" /\ req[p].log[1].row = Null
            /\ req[p].log[2].call \in DaoReadCalls /\ req[p].log[2].row = Null

\* C3, the step: the DAO read of a lookup that finds no row ends the lookup
\* with NotFound and leaves the cache as it was.
C3_NotFoundStep ==
    \A p \in Procs :
        (/\ req[p].pc = "find.dao"
         /\ req'[p] # req[p]
         /\ DaoFind(pessoas, req[p].op, req[p].arg) = Null)
            => /\ req'[p].pc = "done"
               /\ req'[p].result.kind = "NotFound"
               /\ cacheManager' = cacheManager

\* C3: a miss on which the DAO returns no row raises NotFound, sets nothing and
\* leaves the cache unchanged; every NotFound has invoked the DAO.
C3_NegativeNotCached == []C3_NotFoundLog /\ [][C3_NotFoundStep]_vars

\* a findByEmail raised NotFound
C3_Witness ==
    \E p \in Procs :
        /\ req[p].pc = "done" /\ req[p].op = "findByEmail"
        /\ req[p].result.kind = "NotFound"

\* C4, the outcome: a lookup that missed and got a row from the DAO has a
\* result only once it has called cache set(key of the get, that row, 300000),
\* and the result is that row.
C4_SetLogged ==
    \A p \in Procs :
        (req[p].op \in Finds /\ Len(req[p].log) >= 2 /\ req[p].log[2].row # Null) =>
            LET log == req[p].log
            IN  /\ req[p].pc = "done" <=> req[p].result.kind # "none"
                /\ req[p].result.kind # "none" =>
                      /\ Len(log) = 3
                      /\ log[3].call = "cache.set"
                      /\ log[3].key = log[1].key
                      /\ log[3].row = log[2].row
                      /\ log[3].ttl = 300000
                      /\ req[p].result = Ok(log[2].row)

\* C4, the step: the set writes the row under that key with a TTL of 300000.
C4_SetStep ==
    \A p \in Procs :
        (req[p].pc = "find.set" /\ req'[p] # req[p]) =>
            cacheManager' = [cacheManager EXCEPT ![req[p].log[1].key] =
                                [value |-> req[p].log[2].row, ttl |-> 300000]]

\* C4: on a miss with a row, set(key, row, 300000) comes before the return.
C4_SetBeforeReturn == []C4_SetLogged /\ [][C4_SetStep]_vars

\* a findByEmail missed, read the row and has returned it
C4_Witness ==
    \E p \in Procs :
        /\ req[p].pc = "done" /\ req[p].op = "findByEmail"
        /\ Len(req[p].log) = 3 /\ req[p].result.kind = "ok"

C6_FailedWriteLog ==
    \A p \in Procs :
        (/\ IsWrite(req[p])
         /\ \E j \in 1..Len(req[p].log) :
               req[p].log[j].call \in DaoWriteCalls /\ req[p].log[j].err # "ok")
            => /\ req[p].pc = "done"
               /\ req[p].result.kind \in {"Duplicate", "error"}
               /\ Only(req[p].log, {"cache.del", "cache.set"}) = <<>>

\* C6, the step: the failing DAO mutation leaves cache and table as they were.
C6_FailedWriteStep ==
    \A p \in Procs :
        (/\ req'[p] # req[p]
         /\ req'[p].log # <<>>
         /\ req'[p].log[Len(req'[p].log)].call \in DaoWriteCalls
         /\ req'[p].log[Len(req'[p].log)].err # "ok")
            => (cacheManager' = cacheManager /\ pessoas' = pessoas)

\* C6: a failed DAO mutation is followed by no cache del and no cache set, and
\* the cache is as before.
C6_FailedWriteTouchesNothing == []C6_FailedWriteLog /\ [][C6_FailedWriteStep]_vars

\* an update failed on a uniqueness violation of the email column
C6_Witness ==
    \E p \in Procs :
        /\ req[p].pc = "done" /\ req[p].op = "update"
        /\ req[p].result = Duplicate("email")

\* C7: a successful update has called cache del exactly four times, for the
\* email and phone keys of the row getById read and then of the row the DAO
\* update returned; when these two rows agree on email and phone the four calls
\* are two distinct keys, each deleted twice.  An update in progress never has
\* more than four.
C7_UpdateEvictsFour ==
    \A p \in Procs :
        req[p].op = "update" =>
            LET log == req[p].log
                dels == DelKeys(log)
            IN  /\ Len(dels) <= 4
                /\ req[p].result.kind = "ok" =>
                      LET old == log[1].row
                          new == log[2].row
                      IN  /\ log[1].call = "dao.getById" /\ log[2].call = "dao.update"
                          /\ dels = << generateKey("findByEmail", <<old.email>>),
                                       generateKey("findByTelefone", <<old.telefone>>),
                                       generateKey("findByEmail", <<new.email>>),
                                       generateKey("findByTelefone", <<new.telefone>>) >>
                          /\ (old.email = new.email /\ old.telefone = new.telefone) =>
                                /\ Cardinality({dels[i] : i \in 1..4}) = 2
                                /\ dels[1] = dels[3] /\ dels[2] = dels[4]

\* an update of idade alone has finished
C7_Witness ==
    \E p \in Procs :
        /\ req[p].pc = "done" /\ req[p].op = "update" /\ req[p].result.kind = "ok"
        /\ req[p].arg.idade # UnsetIdade
        /\ req[p].oldPessoa.idade # req[p].pessoa.idade
        /\ Len(DelKeys(req[p].log)) = 4

\* C8: a successful create has called cache del exactly twice, for the email
\* and the phone key of the created row; a successful delete exactly twice,
\* for the email and the phone key of the row getById read.
C8_CreateDeleteEvictTwo ==
    \A p \in Procs :
        (req[p].op \in {"create", "delete"} /\ req[p].result.kind = "ok") =>
            LET log == req[p].log
                row == log[1].row
            IN  /\ log[1].call = IF req[p].op = "create" THEN "dao.create"
                                 ELSE "dao.getById"
                /\ DelKeys(log) = << generateKey("findByEmail", <<row.email>>),
                                     generateKey("findByTelefone", <<row.telefone>>) >>

\* a create has finished
C8_Witness ==
    \E p \in Procs :
        /\ req[p].pc = "done" /\ req[p].op = "create" /\ req[p].result.kind = "ok"
        /\ Len(DelKeys(req[p].log)) = 2

\* C9, populate: the set of a findByEmail that missed and read a row leaves the
\* row in the cache under the email's key.
C9_Populates ==
    \A p \in Procs :
        (req[p].op = "findByEmail" /\ req[p].pc = "find.set" /\ req'[p] # req[p]) =>
            cacheManager'[generateKey("findByEmail", <<req[p].arg.email>>)].value = req[p].pessoa

\* C9, serve: a findByEmail that starts while the key has an entry returns the
\* entry and makes no DAO read.
C9_Serves ==
    \A p \in Procs :
        (req[p].pc = "idle" /\ req'[p].op = "findByEmail"
         /\ cacheManager[generateKey("findByEmail", <<req'[p].arg.email>>)] # NoEntry) =>
            /\ req'[p].pc = "done"
            /\ req'[p].result =
                  Ok(cacheManager[generateKey("findByEmail", <<req'[p].arg.email>>)].value)
            /\ Only(req'[p].log, DaoReadCalls) = <<>>

\* C9, keep: an entry leaves the cache only by a cache del of a create, update
\* or delete, or because the store dropped it.
C9_Keeps ==
    \A e \in Emails :
        LET k == generateKey("findByEmail", <<e>>)
        IN  (cacheManager[k] # NoEntry /\ cacheManager'[k] = NoEntry) =>
                \/ req' = req
                \/ \E p \in Procs :
                      /\ IsWrite(req[p])
                      /\ Len(req'[p].log) = Len(req[p].log) + 1
                      /\ req'[p].log[Len(req'[p].log)].call = "cache.del"
                      /\ req'[p].log[Len(req'[p].log)].key = k

\* C9: the first findByEmail populates the cache, and later ones are served
\* from it without a DAO read until a write invalidates the entry or it expires.
C9_ReadThrough == [][C9_Populates /\ C9_Serves /\ C9_Keeps]_vars

\* a findByEmail was answered from the cache with the row of an existing Person
C9_Witness ==
    \E p \in Procs :
        /\ req[p].pc = "done" /\ req[p].op = "findByEmail"
        /\ req[p].log[1].row # Null
        /\ req[p].log[1].row = DaoFindByEmail(pessoas, req[p].arg.email)

\* C10 (requests that do not overlap): when an update that changed the email
\* completes, neither the old nor the new email has a cache entry; after it,
\* and until the next write or expiry, every lookup by the old email misses and
\* reads the DAO, the first lookup by the new email misses, reads the DAO and
\* returns the row, and the second lookup by the new email hits.
C10_AfterEmailUpdate ==
    \A p \in Procs :
        /\ (/\ req[p].pc = "done" /\ req[p].op = "update" /\ req[p].result.kind = "ok"
            /\ req[p].oldPessoa.email # req[p].pessoa.email)
              => /\ cacheManager[generateKey("findByEmail", <<req[p].oldPessoa.email>>)] = NoEntry
                 /\ cacheManager[generateKey("findByEmail", <<req[p].pessoa.email>>)] = NoEntry
        /\ (/\ req[p].pc = "done" /\ req[p].op = "findByEmail"
            /\ since.op = "update" /\ since.oldEmail # since.email)
              => LET log == req[p].log
                     e == req[p].arg.email
                 IN  /\ e = since.oldEmail =>
                           /\ log[1].row = Null
                           /\ Len(Only(log, DaoReadCalls)) = 1
                     /\ (e = since.email /\ since.looks[e] = 0) =>
                           /\ log[1].row = Null
                           /\ Len(Only(log, DaoReadCalls)) = 1
                           /\ req[p].result.kind = "ok"
                           /\ req[p].result.value.email = e
                     /\ (e = since.email /\ since.looks[e] = 1) =>
                           /\ log[1].row # Null
                           /\ req[p].result = Ok(log[1].row)

\* after an update that changed a cached email, the second lookup by the new
\* email was answered from the cache
C10_Witness ==
    \E p \in Procs :
        /\ req[p].pc = "done" /\ req[p].op = "findByEmail"
        /\ since.op = "update" /\ since.oldEmail # since.email /\ since.cached
        /\ req[p].arg.email = since.email /\ since.looks[since.email] = 1
        /\ req[p].log[1].row # Null

\* C11 (requests that do not overlap): when a delete completes, the email key
\* of the deleted row has no cache entry; after a delete of a Person whose email
\* lookup was cached, and until the next write, every findByEmail with that
\* email misses the cache, invokes the DAO and raises NotFound.
C11_AfterDelete ==
    \A p \in Procs :
        /\ (req[p].pc = "done" /\ req[p].op = "delete" /\ req[p].result.kind = "ok")
              => cacheManager[generateKey("findByEmail", <<req[p].oldPessoa.email>>)]
                    = NoEntry
        /\ (/\ req[p].pc = "done" /\ req[p].op = "findByEmail"
            /\ since.op = "delete" /\ since.cached
            /\ req[p].arg.email = since.oldEmail)
              => LET log == req[p].log
                 IN  /\ Len(log) = 2
                     /\ log[1].call = "cache.get" /\ log[1].row = Null
                     /\ log[2].call = "dao.findByEmail" /\ log[2].row = Null
                     /\ req[p].result = NotFound("email")

\* the first findByEmail after the delete of a Person whose email was cached
\* has raised NotFound
C11_Witness ==
    \E p \in Procs :
        /\ req[p].pc = "done" /\ req[p].op = "findByEmail"
        /\ since.op = "delete" /\ since.cached
        /\ req[p].arg.email = since.oldEmail /\ since.looks[since.oldEmail] = 0
        /\ req[p].result.kind = "NotFound"

\* C12 (requests that do not overlap): after a findByEmail(e) that raised
\* NotFound and a successful create of a Person with email e, the next
\* findByEmail(e) returns the persisted row of email e, the created Person.
C12_CreateAfterMiss ==
    \A p \in Procs :
        (/\ req[p].pc = "done" /\ req[p].op = "findByEmail"
         /\ since.op = "create" /\ since.missed
         /\ req[p].arg.email = since.email /\ since.looks[since.email] = 0)
            => /\ req[p].result.kind = "ok"
               /\ req[p].result.value.email = since.email
               /\ \E id \in Ids : pessoas[id] = req[p].result.value

\* the first findByEmail(e) after NotFound and create has returned a row
C12_Witness ==
    \E p \in Procs :
        /\ req[p].pc = "done" /\ req[p].op = "findByEmail"
        /\ since.op = "create" /\ since.missed
        /\ req[p].arg.email = since.email /\ since.looks[since.email] = 0
        /\ req[p].result.kind = "ok"

\* the keys a successful update r invalidates
UpdateKeys(r) ==
    {EmailCacheKey(r.oldPessoa), TelefoneCacheKey(r.oldPessoa),
     EmailCacheKey(r.pessoa), TelefoneCacheKey(r.pessoa)}

\* C13 (as claimed): a stale entry that a read-through set between the commit
\* of an update of its record and that update's invalidation calls stays until
\* its TTL expires: no step of a request removes it.
C13_WindowEntrySurvives ==
    [][\A k \in windowed :
          (cacheManager[k].value # Persisted(k) /\ cacheManager'[k] = NoEntry)
              => req' = req]_vars

\* C13 (amended): when an update has finished its invalidation, no entry that
\* a read-through set between the commit of an update and its first del is
\* left under the old or new email or phone key of the update.
C13_WindowEntryEvicted ==
    \A q \in Procs :
        (req[q].pc = "done" /\ req[q].op = "update" /\ req[q].result.kind = "ok")
            => \A k \in UpdateKeys(req[q]) : k \notin windowed

\* an update has committed and has deleted no key yet, and a lookup that read
\* the row before the commit has set an entry, now stale, under one of the
\* update's keys
C13_Witness ==
    \E q \in Procs :
        /\ InWindow(q, req[q].pessoa)
        /\ \E k \in windowed :
              /\ k \in {EmailCacheKey(req[q].oldPessoa), TelefoneCacheKey(req[q].oldPessoa)}
              /\ cacheManager[k].value = req[q].oldPessoa
              /\ cacheManager[k].value # Persisted(k)

\* C14 (a cache whose del may fail): a create, update or delete one of whose
\* dels failed makes no further call and ends with the error of that del; its
\* result is never a success.
C14_FailedDelPropagates ==
    \A p \in Procs :
        LET log == req[p].log
        IN  \A i \in 1..Len(log) :
                (log[i].call = "cache.del" /\ log[i].err # "ok") =>
                    /\ IsWrite(req[p])
                    /\ i = Len(log)
                    /\ req[p].pc = "done"
                    /\ req[p].result = Raw(log[i].err)

\* the third del of an update has failed, after two dels that succeeded
C14_Witness ==
    \E p \in Procs :
        /\ req[p].pc = "done" /\ req[p].op = "update"
        /\ Len(req[p].log) = 5
        /\ req[p].log[5].call = "cache.del" /\ req[p].log[5].err = CacheDown
        /\ req[p].result.kind = "error"

\* C15, the outcome: an update or delete whose getById found no row has made
\* no other call (no DAO update or delete, no cache get, set or del) and has
\* raised NotFound for the id.
C15_MissingIdLog ==
    \A p \in Procs :
        (req[p].op \in {"update", "delete"} /\ req[p].log[1].row = Null) =>
            /\ req[p].log = <<Call("dao.getById", NoKey, Null, "ok")>>
            /\ req[p].pc = "done"
            /\ req[p].result = NotFound("id")

\* C15, the step: the getById of an update or delete of an id that has no row
\* leaves the table, the cache and the counters as they were.
C15_MissingIdStep ==
    \A p \in Procs :
        (/\ req[p].pc = "idle"
         /\ req'[p].op \in {"update", "delete"}
         /\ pessoas[req'[p].arg.id] = Null)
            => /\ req'[p].result = NotFound("id")
               /\ pessoas' = pessoas
               /\ cacheManager' = cacheManager
               /\ cacheHits' = cacheHits /\ cacheMisses' = cacheMisses

\* C15: update and delete of an id that has no row raise NotFound, call neither
\* the DAO update or delete nor the cache, and change nothing.
C15_MissingIdTouchesNothing == []C15_MissingIdLog /\ [][C15_MissingIdStep]_vars

\* an update of an id that has no row has raised NotFound while the cache
\* holds an entry
C15_Witness ==
    \E p \in Procs :
        /\ req[p].pc = "done" /\ req[p].op = "update"
        /\ req[p].result = NotFound("id")
        /\ \E k \in Keys : cacheManager[k] # NoEntry

\* a params list that holds strings only
AllStrings(params) == \A i \in 1..Len(params) : params[i] \notin {JsNull, JsUndefined}

Calls(call) == observed'.n = observed.n + 1 /\ observed'.call = call

\* C17 (as claimed): a get raises nothing and moves exactly one counter by
\* one: the hit counter when the key has an entry, and the stored value is
\* returned; the miss counter when it has none, and null is returned; and so
\* for every stored value.
C17_GetCountsPresence ==
    [][Calls("get") =>
          LET entry == cacheManager[observed'.key]
          IN  /\ entry # NoEntry =>
                    /\ cacheHits' = cacheHits + 1 /\ cacheMisses' = cacheMisses
                    /\ observed'.ret = entry.value
              /\ entry = NoEntry =>
                    /\ cacheMisses' = cacheMisses + 1 /\ cacheHits' = cacheHits
                    /\ observed'.ret = Null]_vars

\* C18, the step: a del of a key removes the entry of that key, if there is
\* one, and nothing else; the counters stay.
C18_DelStep ==
    Calls("del") =>
        /\ cacheManager'[observed'.key] = NoEntry
        /\ \A k \in Keys \ {observed'.key} : cacheManager'[k] = cacheManager[k]
        /\ cacheManager[observed'.key] = NoEntry => cacheManager' = cacheManager
        /\ cacheHits' = cacheHits /\ cacheMisses' = cacheMisses

\* C18, the repeated del: a del of the key that the call before it deleted
\* changes nothing.
C18_DelAgain ==
    (Calls("del") /\ observed.call = "del" /\ observed'.key = observed.key)
        => cacheManager' = cacheManager

\* C18: del of an absent key is a no-op, del of a present key removes exactly
\* that entry, and del is idempotent.
C18_DelIdempotent == [][C18_DelStep /\ C18_DelAgain]_vars

\* a del has removed the entry of its key and left the entry of another key
C18_Witness ==
    /\ observed.call = "del"
    /\ observed.before # NoEntry
    /\ cacheManager[observed.key] = NoEntry
    /\ \E k \in Keys : cacheManager[k] # NoEntry

\* C19: in a step that is no reset neither counter decreases; incrementCacheHit
\* raises the hit counter by exactly one and leaves the miss counter, and
\* incrementCacheMiss the other way round.
C19_CountersMonotonic ==
    [][observed'.call # "reset" =>
          /\ cacheHits' >= cacheHits /\ cacheMisses' >= cacheMisses
          /\ observed'.call = "incrementCacheHit"
                => (cacheHits' = cacheHits + 1 /\ cacheMisses' = cacheMisses)
          /\ observed'.call = "incrementCacheMiss"
                => (cacheMisses' = cacheMisses + 1 /\ cacheHits' = cacheHits)]_vars

\* a miss has been counted after a hit
C19_Witness ==
    /\ observed.call = "incrementCacheMiss"
    /\ cacheHits >= 1 /\ cacheMisses >= 2

\* C20: with N hits and M misses recorded, getCacheHitRate returns
\* N / (N + M) * 100 rounded to two decimals (a half rounds up), here in
\* hundredths, and 0 when N + M = 0.
C20_HitRateRounded ==
    observed.call = "getCacheHitRate" =>
        LET total == cacheHits + cacheMisses
        IN  observed.ret = IF total = 0 THEN 0
                           ELSE (2 * 10000 * cacheHits + total) \div (2 * total)

\* C21: trackRequest raises the request count of its key by one and appends t
\* to that key's samples; it raises that key's error count, and the error
\* total, by one exactly when status >= 400; every other key's count, samples
\* and error count, and the hit and miss counters, stay.
C21_TrackRequest ==
    [][observed'.call = "trackRequest" =>
          LET key == observed'.key
              t == observed'.responseTime
              failed == IF observed'.statusCode >= 400 THEN 1 ELSE 0
          IN  /\ requestCounts'[key] = GetOrZero(requestCounts, key) + 1
              /\ Len(responseTimes'[key]) = GetOrZero(requestCounts, key) + 1
              /\ responseTimes'[key][Len(responseTimes'[key])] = t
              /\ key \in DOMAIN responseTimes =>
                    SubSeq(responseTimes'[key], 1, Len(responseTimes[key]))
                        = responseTimes[key]
              /\ GetOrZero(errorCounts', key) = GetOrZero(errorCounts, key) + failed
              /\ Total(errorCounts') = Total(errorCounts) + failed
              /\ \A k \in (DOMAIN requestCounts' \cup DOMAIN requestCounts) \ {key} :
                    /\ k \in DOMAIN requestCounts /\ k \in DOMAIN requestCounts'
                    /\ requestCounts'[k] = requestCounts[k]
                    /\ responseTimes'[k] = responseTimes[k]
                    /\ GetOrZero(errorCounts', k) = GetOrZero(errorCounts, k)
              /\ DOMAIN errorCounts' \subseteq DOMAIN requestCounts'
              /\ cacheHits' = cacheHits /\ cacheMisses' = cacheMisses]_vars

\* a failing request of one endpoint was tracked after a passing one of the
\* same endpoint and a request of another endpoint
C21_Witness ==
    /\ observed.call = "trackRequest"
    /\ observed.statusCode = 400
    /\ DOMAIN requestCounts = {"GET /pessoas", "POST /pessoas"}
    /\ requestCounts[observed.key] = 2
    /\ errorCounts = (observed.key :> 1)
    /\ cacheHits > 0

\* C22: after reset() both counters are 0 and no endpoint has a request count,
\* a sample list or an error count; the snapshot taken next reports hits 0,
\* misses 0, requests.total 0 and errors.total 0.
C22_ResetClears ==
    [][/\ observed'.call = "reset" =>
             /\ cacheHits' = 0 /\ cacheMisses' = 0
             /\ DOMAIN requestCounts' = {}
             /\ DOMAIN responseTimes' = {}
             /\ DOMAIN errorCounts' = {}
       /\ (observed.call = "reset" /\ observed'.call = "getMetrics") =>
             /\ observed'.ret.cache.hits = 0
             /\ observed'.ret.cache.misses = 0
             /\ observed'.ret.requests.total = 0
             /\ observed'.ret.errors.total = 0]_vars

\* reset() was called with hits, misses, requests and errors recorded
C22_Witness ==
    /\ observed.call = "reset"
    /\ observed.before.hits > 0 /\ observed.before.misses > 0
    /\ Total(observed.before.requests) = MaxTracked
    /\ Total(observed.before.errors) > 0
    /\ cacheHits = 0 /\ requestCounts = << >>

\* the run so far: two creates that succeeded on an empty table, then
\* findByEmail `first` times for one email and `second` times for the other,
\* nothing else, no entry having expired
LookedUp(first, second) ==
    /\ NoneInFlight
    /\ \A i \in Ids : pessoas[i] # Null
    /\ since.op = "create"
    /\ since.looks = [e \in Emails |-> IF e = "a@x" THEN first ELSE second]
    /\ calls = MaxScenarioCalls - 2 - first - second

\* C23: from fresh metrics and an empty cache, two Persons of distinct emails
\* are created; when both have been looked up by email once, 2 misses and no
\* hit are counted; when both have been looked up again, 2 hits and 2 misses
\* are counted, and the snapshot taken then shows hits 2, misses 2, hitRate 50%.
C23_TwoMissesTwoHits ==
    /\ [](LookedUp(1, 1) => (cacheMisses = 2 /\ cacheHits = 0))
    /\ [](LookedUp(2, 2) => (cacheMisses = 2 /\ cacheHits = 2))
    /\ [][(LookedUp(2, 2) /\ observed' # observed /\ observed'.call = "getMetrics") =>
             /\ observed'.ret.cache.hits = 2
             /\ observed'.ret.cache.misses = 2
             /\ observed'.ret.cache.hitRate = 50 * 100]_vars

\* the snapshot was taken after the second round of lookups
C23_Witness ==
    /\ LookedUp(2, 2)
    /\ observed.call = "getMetrics"
    /\ observed.ret.cache.total = 4
    /\ observed.ret.cache.hitRate = 50 * 100

\* the columns of "pessoas" that carry a unique index
UniqueColumns == {"email", "telefone", "cpf"}

C25_GenericBelow500 ==
    observed.call = "catch" /\ observed.response1 # NoResponse =>
        LET e1 == observed.exception1
            e2 == observed.exception2
            r1 == observed.response1
            r2 == observed.response2
        IN  /\ (observed.env # "true" /\ r1.statusCode < 500) =>
                  /\ r1.message = genericMessages(r1.statusCode)
                  /\ r1.message \notin {e.message : e \in Exceptions}
                  /\ r1.details = Undefined
            /\ (observed.env # "true" /\ r1.statusCode < 500
                    /\ r2.statusCode = r1.statusCode) =>
                  (r1.message = r2.message /\ r1.details = r2.details)
            /\ e1.http =>
                  /\ observed.logged1.message = e1.message
                  /\ observed.logged1.details = e1.response.details

\* two conflicts on different fields and values were answered in production
C25_Witness ==
    /\ observed.call = "catch"
    /\ observed.env = "false"
    /\ observed.exception1 = DuplicatePessoaException("email", "a@x")
    /\ observed.exception2 = DuplicatePessoaException("telefone", "b@x")
    /\ observed.response1 = observed.response2
    /\ observed.response1.statusCode = 409
    /\ observed.logged1 # observed.logged2

Uncached == {"findById", "findByName"}

\* C26: a findById or findByName makes exactly one call, the read of the DAO,
\* and no cache get, set or del; no step of it changes the cache or the hit
\* and miss counters; findById answers with the row the table holds, whatever
\* the cache holds.
C26_UncachedLog ==
    \A p \in Procs :
        LET r == req[p]
        IN  (r.pc = "done" /\ r.op \in Uncached) =>
                /\ Len(r.log) = 1
                /\ r.log[1].call = IF r.op = "findById" THEN "dao.getById"
                                   ELSE "dao.findByName"
                /\ r.op = "findById" =>
                      r.result = IF pessoas[r.arg.id] = Null THEN NotFound("id")
                                 ELSE Ok(pessoas[r.arg.id])
                /\ r.op = "findByName" =>
                      \A i \in 1..Len(r.found) : r.found[i] \in Rows(pessoas)

C26_UncachedStep ==
    \A p \in Procs :
        (req'[p] # req[p] /\ (req[p].op \in Uncached \/ req'[p].op \in Uncached))
            => UNCHANGED <<cacheManager, cacheHits, cacheMisses>>

C26_NoCacheOnIdAndName == []C26_UncachedLog /\ [][C26_UncachedStep]_vars

\* findById has answered with a row whose email has a cache entry, after a hit
\* and a miss were counted
C26_Witness ==
    \E p \in Procs :
        /\ req[p].pc = "done" /\ req[p].op = "findById"
        /\ req[p].result.kind = "ok"
        /\ cacheManager[generateKey("findByEmail", <<req[p].result.value.email>>)] # NoEntry
        /\ cacheHits = 1 /\ cacheMisses = 1

\* C27: every entry the read-through protocol sets is given the TTL
\* CACHE_TTL_SECONDS * 1000 ms (300000 ms when the variable is unset), in a
\* store of capacity CACHE_MAX_ITEMS (100 when unset).
C27_TtlAndCapacityFromEnv ==
    \A p \in Procs :
        \A i \in 1..Len(req[p].log) :
            req[p].log[i].call = "cache.set" =>
                /\ req[p].log[i].ttl = AppModuleRegister(env).ttl
                /\ cacheManager[req[p].log[i].key].ttl = AppModuleRegister(env).ttl
                /\ CacheModuleRegister.max = AppModuleRegister(env).max

Stale(k) == cacheManager[k] # NoEntry /\ cacheManager[k].value # Persisted(k)

\* C29: a findByEmail that read its row before a write to it committed, and
\* sets the cache when that write has made all its del calls and returned,
\* stores the row it read: with no operation in flight the cache then holds the
\* row from before the write (or a deleted Person) under the email's key; a
\* later findByEmail of that email is answered with it and leaves it there.
C29_SetAfterWrite ==
    \A p \in Procs :
        (/\ req[p].pc = "find.set" /\ req[p].op = "findByEmail"
         /\ req'[p].pc = "done"
         /\ \A q \in Procs \ {p} : req[q].pc = "idle"
         /\ req[p].pessoa # Persisted(req[p].cacheKey))
          => /\ cacheManager'[req[p].cacheKey].value = req[p].pessoa
             /\ pessoas' = pessoas
             /\ req'[p].result = Ok(req[p].pessoa)

C29_StaleServed ==
    \A p \in Procs : \A e \in Emails :
        LET k == generateKey("findByEmail", <<e>>)
        IN  (/\ NoneInFlight /\ Stale(k)
             /\ req'[p].op = "findByEmail" /\ req'[p].arg.email = e)
              => /\ req'[p].pc = "done"
                 /\ req'[p].result = Ok(cacheManager[k].value)
                 /\ Len(req'[p].log) = 1
                 /\ cacheManager'[k] = cacheManager[k]

C29_StaleRace == [][C29_SetAfterWrite /\ C29_StaleServed]_vars

\* a findByEmail was answered from the cache with a row that is no longer
\* persisted under that email, no other operation being in flight
C29_Witness ==
    \E p \in Procs :
        /\ req[p].pc = "done" /\ req[p].op = "findByEmail"
        /\ Len(req[p].log) = 1
        /\ IsHit(req[p].cached)
        /\ req[p].result.value # Persisted(req[p].cacheKey)
        /\ \A q \in Procs \ {p} : req[q].pc = "idle"
        /\ overlapped

\* the row an update read with getById is the row its DAO update overwrites,
\* as far as the email and phone keys go
C30_OldIsOverwritten ==
    \A p \in Procs :
        (/\ req[p].op = "update" /\ req[p].pc = "update.dao"
         /\ req'[p].pc = "evict.email")
          => /\ EmailCacheKey(req[p].oldPessoa) = EmailCacheKey(pessoas[req[p].arg.id])
             /\ TelefoneCacheKey(req[p].oldPessoa)
                    = TelefoneCacheKey(pessoas[req[p].arg.id])

\* the entries that are under the email and phone keys of the row an update
\* overwrites are under keys the update goes on to delete
C30_OverwrittenKeysEvicted ==
    \A p \in Procs :
        (/\ req[p].op = "update" /\ req[p].pc = "update.dao"
         /\ req'[p].pc = "evict.email")
          => LET overwritten == pessoas[req[p].arg.id]
                 todo == req'[p].todo
             IN  \A k \in {EmailCacheKey(overwritten), TelefoneCacheKey(overwritten)} :
                    cacheManager[k] # NoEntry
                        => \E i \in 1..Len(todo) :
                              k \in {EmailCacheKey(todo[i]), TelefoneCacheKey(todo[i])}

\* C30: for every update, the email and phone keys it invalidates as old are
\* those of the row its own DAO update overwrote, also when another update of
\* the same id commits between its getById and its DAO update; so no entry
\* remains under an email or phone the record held before the last update.
C30_OldKeysOfOverwrittenRow ==
    [][C30_OldIsOverwritten /\ C30_OverwrittenKeysEvicted]_vars

\* the keys of the dels an operation has still to make
LeftKeys(r) ==
    {EmailCacheKey(r.todo[i]) : i \in 1..Len(r.todo)}
        \cup {TelefoneCacheKey(r.todo[i]) : i \in 1..Len(r.todo)}

\* a write one of whose dels failed
DelFailed(r) ==
    /\ IsWrite(r) /\ r.pc = "done" /\ Len(r.log) > 0
    /\ r.log[Len(r.log)].call = "cache.del" /\ r.log[Len(r.log)].err # "ok"

\* the DAO mutation of a write whose del failed is still in the table
C31_CommitKept ==
    \A p \in Procs :
        DelFailed(req[p]) =>
            /\ \E i \in 1..Len(req[p].log) :
                  req[p].log[i].call \in DaoWriteCalls /\ req[p].log[i].err = "ok"
            /\ req[p].op = "delete" => pessoas[req[p].arg.id] = Null
            /\ req[p].op \in {"create", "update"}
                  => pessoas[req[p].pessoa.id] = req[p].pessoa

\* the failing del changes neither the table nor the cache, and the dels that
\* were left are not made
C31_FailedDelStep ==
    \A p \in Procs :
        (Evicting(p) /\ DelFailed(req'[p]))
          => /\ pessoas' = pessoas
             /\ cacheManager' = cacheManager
             /\ req'[p].todo = req[p].todo
             /\ Len(req'[p].log) = Len(req[p].log) + 1

\* C31: when a cache del fails partway through the invalidation of a create,
\* update or delete, the committed DAO mutation is not rolled back and the
\* remaining dels of the operation are not issued: the entries under the keys
\* not yet deleted stay in the cache.
C31_FailedDelLeavesRest == []C31_CommitKept /\ [][C31_FailedDelStep]_vars

\* an update committed, one of its dels failed, and an entry that is no longer
\* the persisted row is still under one of the keys it had left to delete
C31_Witness ==
    \E p \in Procs :
        /\ DelFailed(req[p]) /\ req[p].op = "update"
        /\ req[p].oldPessoa # req[p].pessoa
        /\ \E k \in LeftKeys(req[p]) : Stale(k)

\* a lookup answered from the cache makes no set: the store is as it was
C32_HitSetsNothing ==
    \A p \in Procs :
        (/\ req[p].pc = "idle" /\ req'[p].op \in Finds
         /\ IsHit(req'[p].cached))
          => /\ cacheManager' = cacheManager
             /\ req'[p].pc = "done"
             /\ Len(req'[p].log) = 1

\* the time to live of an entry grows only in the set of a lookup that missed
C32_OnlyMissExtends ==
    \A k \in Keys :
        cacheManager'[k].ttl > cacheManager[k].ttl
          => /\ cacheManager'[k].ttl = CACHE_TTL
             /\ \E p \in Procs :
                   /\ req[p].pc = "find.set" /\ req[p].cacheKey = k
                   /\ ~IsHit(req[p].cached)
                   /\ req'[p].pc = "done"

\* an entry has at most CACHE_TTL left
C32_WithinTtl ==
    \A k \in Keys :
        cacheManager[k] # NoEntry
            => cacheManager[k].ttl > 0 /\ cacheManager[k].ttl <= CACHE_TTL

\* C32: a cache hit in findByEmail/findByTelefone performs no cache set, so a
\* read never extends an entry's expiry: every entry, stale or not, is served
\* for at most the TTL (300000 ms) after the miss that populated it.
C32_ReadsDoNotExtend ==
    []C32_WithinTtl /\ [][C32_HitSetsNothing /\ C32_OnlyMissExtends]_vars

\* a lookup was answered from an entry that is not the persisted row and has
\* aged; the entry has the time to live it had
C32_Witness ==
    \E p \in Procs :
        /\ req[p].pc = "done" /\ req[p].op \in Finds
        /\ IsHit(req[p].cached)
        /\ cacheManager[req[p].cacheKey] # NoEntry
        /\ cacheManager[req[p].cacheKey].value = req[p].cached
        /\ cacheManager[req[p].cacheKey].ttl < CACHE_TTL
        /\ req[p].cached # Persisted(req[p].cacheKey)

\* the keys that have an entry
Present(store) == {k \in DOMAIN store : store[k] # NoEntry}

\* no create, update or delete has made a cache set or a cache get
C33_WritesLogNoSet ==
    \A p \in Procs :
        IsWrite(req[p]) =>
            \A i \in 1..Len(req[p].log) : req[p].log[i].call \notin {"cache.set", "cache.get"}

\* a step of a create, update or delete adds no key and changes no entry that
\* stays
C33_WriteStep ==
    \A p \in Procs :
        (req'[p] # req[p] /\ (IsWrite(req[p]) \/ IsWrite(req'[p])))
          => /\ Present(cacheManager') \subseteq Present(cacheManager)
             /\ \A k \in Present(cacheManager') : cacheManager'[k] = cacheManager[k]

\* an entry appears only in the set of a lookup that missed and found a row
C33_NewEntryStep ==
    \A k \in Keys :
        (cacheManager[k] = NoEntry /\ cacheManager'[k] # NoEntry)
          => \E p \in Procs :
                /\ req[p].op \in Finds /\ req[p].pc = "find.set" /\ req[p].cacheKey = k
                /\ ~IsHit(req[p].cached)
                /\ req[p].pessoa # Null
                /\ \E i \in 1..Len(req[p].log) :
                      req[p].log[i].call \in DaoReadCalls /\ req[p].log[i].row = req[p].pessoa
                /\ cacheManager'[k].value = req[p].pessoa

\* C33: create, update and delete never call cache set: the keys present in
\* the cache after any of them are a subset of the keys present before it, and
\* new entries are created only by a read-through miss that found a row.
C33_WritesOnlyRemove ==
    []C33_WritesLogNoSet /\ [][C33_WriteStep /\ C33_NewEntryStep]_vars

\* a delete has ended after removing the entry a lookup had put in the cache
C33_Witness ==
    \E p \in Procs :
        /\ req[p].pc = "done" /\ req[p].op = "delete" /\ req[p].result.kind = "ok"
        /\ \E i \in 1..Len(req[p].log) :
              /\ req[p].log[i].call = "cache.del" /\ req[p].log[i].row # Null
              /\ cacheManager[req[p].log[i].key] = NoEntry
        /\ cacheHits + cacheMisses > 0

\* the counters add up to the gets completed since the last metrics reset
C34_SumIsCompletedGets == cacheHits + cacheMisses = Completed(observed)

\* a completed get moves exactly one counter by one; set, del and reset of
\* CacheService, and a get that is still suspended, move none
C34_CountStep ==
    /\ (observed' # observed /\ observed'.call = "get")
          => \/ cacheHits' = cacheHits + 1 /\ cacheMisses' = cacheMisses
             \/ cacheHits' = cacheHits /\ cacheMisses' = cacheMisses + 1
    /\ (observed' # observed /\ observed'.call \in {"set", "del", "cache.reset"})
          => cacheHits' = cacheHits /\ cacheMisses' = cacheMisses
    /\ observed' = observed => cacheHits' = cacheHits /\ cacheMisses' = cacheMisses

\* C34: in every reachable state, also when requests interleave at await
\* points, cacheHits + cacheMisses equals the number of CacheService.get calls
\* completed since the last metrics reset, and CacheService.set, del and reset
\* leave both counters unchanged.
C34_GetsCounted == []C34_SumIsCompletedGets /\ [][C34_CountStep]_vars

\* two gets are suspended at once, after a get that completed with a hit: the
\* counters count the completed one only
C34_Witness ==
    /\ \A p \in Procs : req[p].pc = "get.await"
    /\ observed.call = "get" /\ observed.completed = 1
    /\ cacheHits = 1 /\ cacheMisses = 0

\* the lookups whose key is k: the operation and the value looked up
LookupsOf(k) ==
    {<<"findByEmail", e>> : e \in {x \in Emails : generateKey("findByEmail", <<x>>) = k}}
        \cup {<<"findByTelefone", t>> :
                 t \in {x \in Telefones : generateKey("findByTelefone", <<x>>) = k}}

\* a lookup in progress works on the key of its operation and value, and of no
\* other
C35_LookupKey ==
    \A p \in Procs :
        req[p].op \in Finds =>
            LookupsOf(req[p].cacheKey)
                = {<<req[p].op, IF req[p].op = "findByEmail" THEN req[p].arg.email
                                ELSE req[p].arg.telefone>>}

\* a del of evictCacheForPessoa deletes the key of the lookup by the Person's
\* email, or phone, removes what is under it and nothing else
C35_EvictStep ==
    \A p \in Procs :
        (Evicting(p) /\ Len(req'[p].log) = Len(req[p].log) + 1
            /\ req'[p].log[Len(req'[p].log)].err = "ok")
          => LET key == req'[p].log[Len(req'[p].log)].key
                 pessoa == Head(req[p].todo)
             IN  /\ LookupsOf(key)
                       = IF req[p].pc = "evict.email"
                         THEN {<<"findByEmail", pessoa.email>>}
                         ELSE {<<"findByTelefone", pessoa.telefone>>}
                 /\ cacheManager'[key] = NoEntry
                 /\ \A k \in Keys \ {key} : cacheManager'[k] = cacheManager[k]
                 /\ \A q \in Procs :
                       (req[q].op \in Finds /\ req[q].cacheKey = key)
                         => IF req[p].pc = "evict.email"
                            THEN req[q].op = "findByEmail"
                                    /\ req[q].arg.email = pessoa.email
                            ELSE req[q].op = "findByTelefone"
                                    /\ req[q].arg.telefone = pessoa.telefone

\* C35: for every email e and phone t, the key that evictCacheForPessoa deletes
\* for a Person with email e (phone t) is the key that findByEmail(e)
\* (findByTelefone(t)) reads and writes: an invalidation of a value removes the
\* entry a lookup of that value would hit, and never an entry of another value
\* or of the other lookup dimension.
C35_EvictedKeyIsLookupKey == []C35_LookupKey /\ [][C35_EvictStep]_vars

\* an update changed the email of a Person, and its first del removed the
\* entry that a lookup of the old email had set
C35_Witness ==
    \E p \in Procs :
        /\ req[p].op = "update" /\ req[p].pc = "evict.telefone"
        /\ Len(req[p].todo) = 2
        /\ req[p].oldPessoa.email # req[p].pessoa.email
        /\ req[p].log[Len(req[p].log)].call = "cache.del"
        /\ req[p].log[Len(req[p].log)].key = generateKey("findByEmail", <<req[p].oldPessoa.email>>)
        /\ req[p].log[Len(req[p].log)].row = req[p].oldPessoa
        /\ cacheManager[req[p].log[Len(req[p].log)].key] = NoEntry

\* C36: in every reachable state, every cache entry stored under the
\* findByEmail key of e holds a Person snapshot whose email field is e, and
\* every entry under the findByTelefone key of t holds a Person snapshot whose
\* phone field is t.
C36_EntryMatchesKey ==
    /\ \A e \in Emails :
          LET k == generateKey("findByEmail", <<e>>)
          IN  cacheManager[k] # NoEntry
                => cacheManager[k].value \in Pessoa /\ cacheManager[k].value.email = e
    /\ \A t \in Telefones :
          LET k == generateKey("findByTelefone", <<t>>)
          IN  cacheManager[k] # NoEntry
                => cacheManager[k].value \in Pessoa /\ cacheManager[k].value.telefone = t

\* with nothing in flight, the entry under a phone's key is a snapshot with
\* that phone of a Person whose persisted row now has another phone
C36_Witness ==
    /\ NoneInFlight
    /\ \E t \in Telefones :
          LET k == generateKey("findByTelefone", <<t>>)
          IN  /\ cacheManager[k] # NoEntry
              /\ cacheManager[k].value.telefone = t
              /\ pessoas[cacheManager[k].value.id] # Null
              /\ pessoas[cacheManager[k].value.id].telefone # t

\* the requests whose handler has not completed
Handling == {p \in Procs : req[p].pc = "http.handling"}

\* as many requests have been tracked as handlers have completed
C37_OnePerCompleted ==
    Total(requestCounts) = (MaxHttpCalls - calls) - Cardinality(Handling)

\* the step in which a handler completes is a trackRequest call for the
\* request's method and url, with the status code of the response or of the
\* error; no other step tracks anything
C37_TapStep ==
    /\ \A p \in Procs :
          (req[p].pc = "http.handling" /\ req'[p].pc = "done")
            => LET outcome == req'[p].found[1]
               IN  /\ observed'.call = "trackRequest"
                   /\ observed'.key = EndpointKey(req[p].op, req[p].cacheKey)
                   /\ ~outcome.failed => observed'.statusCode = outcome.statusCode
                   /\ (outcome.failed /\ outcome.status # Undefined)
                         => observed'.statusCode = outcome.status[1]
                   /\ (outcome.failed /\ outcome.status = Undefined)
                         => observed'.statusCode = 500
                   /\ requestCounts'[observed'.key]
                         = GetOrZero(requestCounts, observed'.key) + 1
    /\ endpointMaps' # endpointMaps
          => \E p \in Procs : req[p].pc = "http.handling" /\ req'[p].pc = "done"

\* C37: every request that passes through LoggingInterceptor causes exactly
\* one trackRequest call, issued when its handler completes and never before:
\* with the response's status code when the handler succeeds, and with
\* error.status, or 500 when the error carries no status, when it fails.
C37_TrackedOnCompletion == []C37_OnePerCompleted /\ [][C37_TapStep]_vars

\* a request that failed with a 404 has been tracked with 404 while another
\* request, which started before, is still being handled and is not tracked
C37_Witness ==
    \E p \in Procs :
        /\ req[p].pc = "done"
        /\ req[p].found[1].failed /\ req[p].found[1].status = Defined(404)
        /\ observed.call = "trackRequest" /\ observed.statusCode = 404
        /\ Handling # {}
        /\ Total(requestCounts) = 1 /\ Total(errorCounts) = 1

\* the sum of one field over the endpoints of a snapshot
RECURSIVE SumField(_, _, _)
SumField(byEndpoint, field, keys) ==
    IF keys = {} THEN 0
    ELSE LET k == CHOOSE x \in keys : TRUE
         IN  byEndpoint[k][field] + SumField(byEndpoint, field, keys \ {k})

\* per endpoint: errors at most requests, one latency sample per request
C38_PerEndpoint ==
    /\ DOMAIN responseTimes = DOMAIN requestCounts
    /\ DOMAIN errorCounts \subseteq DOMAIN requestCounts
    /\ \A key \in DOMAIN requestCounts :
          /\ requestCounts[key] >= 1
          /\ GetOrZero(errorCounts, key) <= requestCounts[key]
          /\ Len(responseTimes[key]) = requestCounts[key]

\* the totals of a snapshot are the sums over its endpoints
C38_SnapshotTotals ==
    observed.call = "getMetrics" =>
        LET byEndpoint == observed.ret.requests.byEndpoint
        IN  /\ DOMAIN byEndpoint = DOMAIN requestCounts
            /\ observed.ret.requests.total
                  = SumField(byEndpoint, "requests", DOMAIN byEndpoint)
            /\ observed.ret.errors.total
                  = SumField(byEndpoint, "errors", DOMAIN byEndpoint)

\* C38: in every reachable state of MetricsService, for each endpoint key the
\* error count is at most the request count and the number of stored latency
\* samples equals the request count; the snapshot's requests.total equals the
\* sum of the per-endpoint request counts and errors.total the sum of the
\* per-endpoint error counts.
C38_EndpointCounts == C38_PerEndpoint /\ C38_SnapshotTotals

\* a snapshot of two endpoints, one with two requests of which one failed
C38_Witness ==
    /\ observed.call = "getMetrics"
    /\ observed.ret.requests.total = 3
    /\ observed.ret.errors.total = 1
    /\ \E key \in DOMAIN requestCounts :
          /\ requestCounts[key] = 2
          /\ GetOrZero(errorCounts, key) = 1
          /\ Len(responseTimes[key]) = 2
    /\ Cardinality(DOMAIN requestCounts) = 2

\* C39: at the HTTP boundary, PUT /pessoas/:id surfaces a uniqueness conflict
\* raised by the service as 409 and a missing id as 404: the controller does
\* not turn a DuplicateConflict, or any other failure of update that is not a
\* not-found, into a 404.
C39_ConflictSurfacesAs409 ==
    observed.call = "PUT /pessoas/:id" =>
        /\ observed.result.kind = "Duplicate" => observed.response.status = 409
        /\ observed.result.kind = "NotFound" => observed.response.status = 404
        /\ observed.result.kind \notin {"ok", "NotFound"}
              => observed.response.status # 404

====
